---- MODULE Spec2Model ----
(***************************************************************************)
(* Order placement of weldmart-server (routes/routes.go) over the SQLite   *)
(* store opened in db/database.go.                                         *)
(*                                                                         *)
(* Storage model.  db.DB is one SQLite file reached through a connection   *)
(* pool; every db.DB.Begin() is a deferred transaction on a connection of  *)
(* its own.  The first statement of a placement transaction is an INSERT,  *)
(* which takes the database-wide RESERVED (writer) lock; a second writer   *)
(* waits in the busy handler until the lock is free.  A writer's changes   *)
(* live in its private page image until COMMIT installs them atomically;   *)
(* ROLLBACK drops the image.  Statements run on db.DB outside a            *)
(* transaction read the committed tables only.                             *)
(***************************************************************************)
EXTENDS Integers, Sequences, FiniteSets, TLC

\* ----------------------------------------------------------------- bounds
MaxStock == 2
MaxQty == 2
MaxLines == 2
MaxCatalog == 3      \* rows of table products
BroadcastCap == 1    \* slots of the channel broadcast (100 in the code)
MaxMessages == 2     \* messages a peer sends on its connection

\* ------------------------------------------------------------ fixed sets
Procs == {1, 2}            \* concurrently served HTTP requests
Products == {1, 2}         \* ids of the rows of table products
MissingProduct == Cardinality(Products) + 1   \* a product id that resolves to no row
Users == {1}               \* ids of the rows of table users
MissingUser == Cardinality(Users) + 1         \* a user id that resolves to no row
\* concurrently served updateOrder requests (connection ids after Procs)
Updaters == {Cardinality(Procs) + 1, Cardinality(Procs) + 2}
MissingOrder == Cardinality(Procs) + 1        \* an order id no placement here is given

VARIABLES
  stock,        \* products.quantity of every product row (committed)
  orders,       \* rows of table orders (committed)
  order_items,  \* rows of table order_items (committed)
  seq,          \* last primary key handed out per table (committed)
  lock,         \* connection holding the SQLite writer lock, 0 when free
  pc,           \* position of every request handler
  requestData,  \* parsed request body of every handler
  order,        \* the handler's models.Order after tx.Create (its ID)
  orderItems,   \* the handler's []models.OrderItem built by the check loop
  idx,          \* number of orderItems whose stock update has run
  tx,           \* private image of the handler's open transaction
  txState,      \* "none" | "open" | "committed" | "rolledback"
  resp,         \* the HTTP response written by the handler
  snap,         \* history: the committed tables as the handler's transaction found them
  stock0,       \* history: products.quantity at start-up
  rpc,          \* position of the reading handler (getAllOrders, getAllProducts)
  obs,          \* what the reading handler has loaded so far
  shared,       \* connections whose open transaction holds SQLite's SHARED lock
  upc,          \* position of every updateOrder handler
  updateData,   \* parsed request body of every updateOrder handler
  uorder,       \* the models.Order (with OrderItems) its tx.First loaded
  utx,          \* private image of the updateOrder handler's transaction
  utxState,     \* "none" | "open" | "committed" | "rolledback"
  uresp,        \* the HTTP response written by the updateOrder handler
  dpc,          \* position of the deleteOrder handler
  dorder,       \* the models.Order its db.DB.First loaded (its ID)
  dresp,        \* the HTTP response written by the deleteOrder handler
  catalog,      \* rows of tables products, categories and brands, in id order
  listing,      \* the response of the latest catalog request
  clients,      \* the connections in the map clients
  broadcast,    \* the messages buffered in the channel broadcast
  mutex,        \* goroutine holding mutex, 0 when free
  wpc,          \* position of the wsHandler goroutine of every connection
  nread,        \* number of messages read from every connection
  bpc,          \* position of the broadcasting goroutine
  message,      \* the message the broadcasting goroutine received
  todo,         \* clients its range over the map has not visited yet
  writes,       \* history: the WriteMessage calls made, with their outcome
  sent          \* history: the messages broadcast, each with the clients
                \* registered when its range began

dbvars == <<stock, orders, order_items, seq>>
vars == <<stock, orders, order_items, seq, lock, pc, requestData, order,
          orderItems, idx, tx, txState, resp, snap, stock0, rpc, obs,
          shared, upc, updateData, uorder, utx, utxState, uresp,
          dpc, dorder, dresp, catalog, listing,
          clients, broadcast, mutex, wpc, nread, bpc, message, todo, writes, sent>>
placevars == <<lock, pc, requestData, order, orderItems, idx, tx, txState, resp, snap>>
readvars == <<rpc, obs>>
updvars == <<shared, upc, updateData, uorder, utx, utxState, uresp>>
delvars == <<dpc, dorder, dresp>>
catvars == <<catalog, listing>>
wsvars == <<clients, broadcast, mutex, wpc, nread, bpc, message, todo, writes, sent>>
restvars == <<delvars, catvars, wsvars>>

\* ------------------------------------------------------------- requests
Item(pid, q) == [ProductID |-> pid, Quantity |-> q]

SeqsUpTo(S, n) == UNION {[1..k -> S] : k \in 0..n}

\* order_items lines that pass validation
GoodItems == {Item(pid, q) : pid \in Products, q \in 1..MaxQty} \cup {Item(MissingProduct, 1)}

\* a body of the given handler with every required field present
GoodRequest(kind, user, items) ==
  [kind |-> kind, Price |-> 1, Bonus |-> 0, UserID |-> user,
   Status |-> "new", Service |-> "delivery",
   Phone |-> IF kind = "individual" THEN "555" ELSE "",
   Name |-> IF kind = "individual" THEN "ann" ELSE "",
   Organization |-> IF kind = "legal" THEN "acme" ELSE "",
   INN |-> IF kind = "legal" THEN "77" ELSE "",
   Comment |-> "",
   HasItems |-> TRUE, OrderItems |-> items, WellFormed |-> TRUE]

Kinds == {"individual", "legal"}

\* bodies that validate.Struct accepts or that only the line list decides
LineRequests ==
  {GoodRequest("individual", 1, its) : its \in SeqsUpTo(GoodItems, MaxLines)}
  \cup {GoodRequest("legal", 1, its) : its \in SeqsUpTo(GoodItems, 2)}

\* bodies with one field of the header or of a line broken
BrokenRequests ==
  LET g(k) == GoodRequest(k, 1, <<Item(1, 1)>>) IN
  UNION {
    { [g(k) EXCEPT !.Price = 0], [g(k) EXCEPT !.Price = -1],
      [g(k) EXCEPT !.Bonus = -1], [g(k) EXCEPT !.Status = ""],
      [g(k) EXCEPT !.Service = ""],
      [g(k) EXCEPT !.HasItems = FALSE, !.OrderItems = <<>>],
      [g(k) EXCEPT !.OrderItems = <<Item(0, 1)>>],
      [g(k) EXCEPT !.OrderItems = <<Item(1, 0)>>],
      [g(k) EXCEPT !.OrderItems = <<Item(1, 1), Item(1, -1)>>],
      [g(k) EXCEPT !.WellFormed = FALSE] }
    : k \in Kinds }
  \cup { [g("individual") EXCEPT !.Phone = ""], [g("individual") EXCEPT !.Name = ""],
         [g("legal") EXCEPT !.Organization = ""], [g("legal") EXCEPT !.INN = ""] }

UserRequests == {GoodRequest(k, MissingUser, <<Item(1, 1)>>) : k \in Kinds}

\* bodies whose price is another one
PriceRequests == {[GoodRequest(k, 1, <<Item(1, 1)>>) EXCEPT !.Price = 2] : k \in Kinds}

Requests == LineRequests \cup BrokenRequests \cup UserRequests \cup PriceRequests

NoRequest == GoodRequest("individual", 0, <<>>)

\* ------------------------------------------------------------ validation
\* validator tag `required` on a number: not the zero value
RequiredNum(v) == v # 0
\* validator tag `required` on a string: not the zero value
RequiredStr(v) == v # ""
\* validator tag `gte=n` on a number
Gte(v, n) == v >= n

\* tags of one element of order_items (reached through `dive`)
ItemValid(it) ==
  /\ RequiredNum(it.ProductID)
  /\ RequiredNum(it.Quantity) /\ Gte(it.Quantity, 1)

\* validate.Struct(&requestData) of createIndividualOrder / createLegalOrder;
\* `required` on the slice order_items only asks that it is not nil
ValidateStruct(r) ==
  /\ RequiredNum(r.Price) /\ Gte(r.Price, 0)
  /\ Gte(r.Bonus, 0)
  /\ RequiredStr(r.Status)
  /\ RequiredStr(r.Service)
  /\ IF r.kind = "individual"
       THEN RequiredStr(r.Phone) /\ RequiredStr(r.Name)
       ELSE RequiredStr(r.Organization) /\ RequiredStr(r.INN)
  /\ r.HasItems
  /\ \A i \in 1..Len(r.OrderItems) : ItemValid(r.OrderItems[i])

\* ----------------------------------------------------------- responses
Response(status, error, pid) == [status |-> status, error |-> error, pid |-> pid]
NoResponse == Response(0, "", 0)

\* --------------------------------------------------- transaction images
Committed == [stock |-> stock, orders |-> orders, order_items |-> order_items, seq |-> seq]
NoImage == [stock |-> [q \in Products |-> 0], orders |-> {}, order_items |-> {},
            seq |-> [orders |-> 0, order_items |-> 0]]

\* products.price of a product row
UnitPrice(q) == q

\* calculatedPrice of the check loop: sum of product.Price * quantity over the
\* lines; the handler computes it and does not use it
RECURSIVE CalculatedPrice(_)
CalculatedPrice(items) ==
  IF items = <<>> THEN 0
  ELSE UnitPrice(Head(items).ProductID) * Head(items).Quantity + CalculatedPrice(Tail(items))

\* variant: the order is given the price calculated from its lines
OrderRow_calculatedPrice(r, id) ==
  [ID |-> id, Price |-> CalculatedPrice(r.OrderItems), Bonus |-> r.Bonus, UserID |-> r.UserID,
   Status |-> r.Status, OrderType |-> r.kind, Phone |-> r.Phone, Name |-> r.Name,
   Organization |-> r.Organization, INN |-> r.INN, Comment |-> r.Comment]

\* models.Order as built from the request and keyed by tx.Create
OrderRow(r, id) ==
  [ID |-> id, Price |-> r.Price, Bonus |-> r.Bonus, UserID |-> r.UserID,
   Status |-> r.Status, OrderType |-> r.kind, Phone |-> r.Phone, Name |-> r.Name,
   Organization |-> r.Organization, INN |-> r.INN, Comment |-> r.Comment]
NoOrder == OrderRow(NoRequest, 0)

\* tx.First(&product, id): the row is found and its quantity scans into a uint
ProductFound(img, pid) == pid \in Products /\ img.stock[pid] >= 0

\* variant: the quantity test lets a line through that asks one more than the stock
RECURSIVE CheckItems_offByOne(_, _, _)
CheckItems_offByOne(items, i, img) ==
  IF i > Len(items) THEN [err |-> "", pid |-> 0]
  ELSE IF ~ProductFound(img, items[i].ProductID)
    THEN [err |-> "ProductNotFound", pid |-> items[i].ProductID]
  ELSE IF items[i].Quantity > img.stock[items[i].ProductID] + 1
    THEN [err |-> "InsufficientStock", pid |-> items[i].ProductID]
  ELSE CheckItems_offByOne(items, i + 1, img)

\* variant: a line whose product is not found is skipped instead of ending
\* the request
RECURSIVE CheckItems_skipMissing(_, _, _)
CheckItems_skipMissing(items, i, img) ==
  IF i > Len(items) THEN [err |-> "", pid |-> 0]
  ELSE IF ~ProductFound(img, items[i].ProductID)
    THEN CheckItems_skipMissing(items, i + 1, img)
  ELSE IF items[i].Quantity > img.stock[items[i].ProductID]
    THEN [err |-> "InsufficientStock", pid |-> items[i].ProductID]
  ELSE CheckItems_skipMissing(items, i + 1, img)

\* the check loop over requestData.OrderItems from line i on: the first line
\* whose product is missing or whose quantity exceeds the stock read decides
RECURSIVE CheckItems(_, _, _)
CheckItems(items, i, img) ==
  IF i > Len(items) THEN [err |-> "", pid |-> 0]
  ELSE IF ~ProductFound(img, items[i].ProductID)
    THEN [err |-> "ProductNotFound", pid |-> items[i].ProductID]
  ELSE IF items[i].Quantity > img.stock[items[i].ProductID]
    THEN [err |-> "InsufficientStock", pid |-> items[i].ProductID]
  ELSE CheckItems(items, i + 1, img)

\* the []models.OrderItem appended by the check loop
BuildOrderItems(items, oid) ==
  [i \in 1..Len(items) |->
     [OrderID |-> oid, ProductID |-> items[i].ProductID, Quantity |-> items[i].Quantity]]

\* rows written by tx.Create(&orderItems): keys follow the table's sequence
ItemRows(its, last) ==
  {[ID |-> last + i, OrderID |-> its[i].OrderID, ProductID |-> its[i].ProductID,
    Quantity |-> its[i].Quantity] : i \in 1..Len(its)}

\* variant: the update subtracts one unit instead of the line's quantity
UpdateQuantity_byOne(st, pid, q) ==
  IF pid \in DOMAIN st THEN [st EXCEPT ![pid] = st[pid] - 1] ELSE st

\* UPDATE products SET quantity = quantity - ? WHERE id = ?
UpdateQuantity(st, pid, q) ==
  IF pid \in DOMAIN st THEN [st EXCEPT ![pid] = st[pid] - q] ELSE st

\* total quantity the lines ask of product q
RECURSIVE SumQty(_, _)
SumQty(items, q) ==
  IF items = <<>> THEN 0
  ELSE (IF Head(items).ProductID = q THEN Head(items).Quantity ELSE 0)
       + SumQty(Tail(items), q)

\* a body of updateOrder (UpdateOrderRequest); zero values are fields the
\* caller left out
UpdateBody(id, price, bonus, status, phone, name, organization, inn, comment) ==
  [ID |-> id, Price |-> price, Bonus |-> bonus, Status |-> status,
   Phone |-> phone, Name |-> name, Organization |-> organization, INN |-> inn,
   Comment |-> comment, WellFormed |-> TRUE]

NoUpdate == UpdateBody(0, 0, 0, "", "", "", "", "", "")
NoLoadedOrder == [row |-> NoOrder, OrderItems |-> {}]

\* validate.Struct(&requestData) of updateOrder
ValidateUpdate(r) ==
  /\ RequiredNum(r.ID)
  /\ Gte(r.Price, 0)
  /\ Gte(r.Bonus, 0)

\* variant: every supplied field is applied whatever the order's kind
ApplyUpdate_anyKind(o, r) ==
  [o EXCEPT !.Phone = IF r.Phone # "" THEN r.Phone ELSE @,
            !.Name = IF r.Name # "" THEN r.Name ELSE @,
            !.Organization = IF r.Organization # "" THEN r.Organization ELSE @,
            !.INN = IF r.INN # "" THEN r.INN ELSE @,
            !.Comment = IF r.Comment # "" THEN r.Comment ELSE @,
            !.Price = IF r.Price > 0 THEN r.Price ELSE @,
            !.Bonus = IF r.Bonus > 0 THEN r.Bonus ELSE @,
            !.Status = IF r.Status # "" THEN r.Status ELSE @]

\* variant: the common fields are overwritten with whatever was supplied,
\* zero values included
ApplyUpdate_overwriteCommon(o, r) ==
  LET k == IF o.OrderType = "individual"
             THEN [o EXCEPT !.Phone = IF r.Phone # "" THEN r.Phone ELSE @,
                            !.Name = IF r.Name # "" THEN r.Name ELSE @]
             ELSE [o EXCEPT !.Organization = IF r.Organization # "" THEN r.Organization ELSE @,
                            !.INN = IF r.INN # "" THEN r.INN ELSE @,
                            !.Comment = IF r.Comment # "" THEN r.Comment ELSE @]
  IN [k EXCEPT !.Price = r.Price, !.Bonus = r.Bonus, !.Status = r.Status]

\* variant: a supplied bonus is added to the stored one
ApplyUpdate_addBonus(o, r) ==
  LET k == IF o.OrderType = "individual"
             THEN [o EXCEPT !.Phone = IF r.Phone # "" THEN r.Phone ELSE @,
                            !.Name = IF r.Name # "" THEN r.Name ELSE @]
             ELSE [o EXCEPT !.Organization = IF r.Organization # "" THEN r.Organization ELSE @,
                            !.INN = IF r.INN # "" THEN r.INN ELSE @,
                            !.Comment = IF r.Comment # "" THEN r.Comment ELSE @]
  IN [k EXCEPT !.Price = IF r.Price > 0 THEN r.Price ELSE @,
               !.Bonus = @ + r.Bonus,
               !.Status = IF r.Status # "" THEN r.Status ELSE @]

\* the field assignments of updateOrder on the loaded order
ApplyUpdate(o, r) ==
  LET k == IF o.OrderType = "individual"
             THEN [o EXCEPT !.Phone = IF r.Phone # "" THEN r.Phone ELSE @,
                            !.Name = IF r.Name # "" THEN r.Name ELSE @]
           ELSE IF o.OrderType = "legal"
             THEN [o EXCEPT !.Organization = IF r.Organization # "" THEN r.Organization ELSE @,
                            !.INN = IF r.INN # "" THEN r.INN ELSE @,
                            !.Comment = IF r.Comment # "" THEN r.Comment ELSE @]
           ELSE o
  IN [k EXCEPT !.Price = IF r.Price > 0 THEN r.Price ELSE @,
               !.Bonus = IF r.Bonus > 0 THEN r.Bonus ELSE @,
               !.Status = IF r.Status # "" THEN r.Status ELSE @]

\* variant: saving the order replaces its lines by none
UpsertItems_dropRows(tbl, items, oid) == {it \in tbl : it.OrderID # oid}

\* tx.Save(&order) saves the loaded OrderItems as well: INSERT ... ON CONFLICT
\* (id) DO UPDATE SET order_id, so a row that exists keeps its other columns
UpsertItems(tbl, items, oid) ==
  {it \in tbl : \A x \in items : x.ID # it.ID}
  \cup {[it EXCEPT !.OrderID = oid] : it \in {y \in tbl : \E x \in items : x.ID = y.ID}}
  \cup {[x EXCEPT !.OrderID = oid] : x \in {y \in items : \A it \in tbl : it.ID # y.ID}}

\* nothing loaded yet by the reading handler
NoObservation == [orders |-> {}, order_items |-> {}, products |-> <<>>,
                  handler |-> "", status |-> 0]

\* the catalog tables before any row is created
EmptyCatalog == [products |-> <<>>, categories |-> <<>>, brands |-> <<>>]

\* an absent query parameter, a numeric one, one that is not a number
Absent == [raw |-> "", n |-> 0]
Num(n) == [raw |-> "num", n |-> n]
Junk == [raw |-> "junk", n |-> 0]

NoQuery == [skip |-> Absent, limit |-> Absent, category_id |-> 0, q |-> <<>>]
NoListing == [handler |-> "", status |-> 0, items |-> <<>>, total |-> 0,
              skip |-> 0, limit |-> 0, query |-> NoQuery]

\* the connections that are upgraded to WebSocket, and the broadcasting
\* goroutine as a holder of mutex
Conns == {1, 2}
Broadcaster == Cardinality(Conns) + 1
NoMessage == <<0, 0>>

\* ------------------------------------------------------------------ Init
Init ==
  /\ stock0 \in {[q \in Products |-> n] : n \in 1..MaxStock}
  /\ stock = stock0
  /\ orders = {}
  /\ order_items = {}
  /\ seq = [orders |-> 0, order_items |-> 0]
  /\ lock = 0
  /\ pc = [p \in Procs |-> "idle"]
  /\ requestData = [p \in Procs |-> NoRequest]
  /\ order = [p \in Procs |-> NoOrder]
  /\ orderItems = [p \in Procs |-> <<>>]
  /\ idx = [p \in Procs |-> 0]
  /\ tx = [p \in Procs |-> NoImage]
  /\ txState = [p \in Procs |-> "none"]
  /\ resp = [p \in Procs |-> NoResponse]
  /\ snap = [p \in Procs |-> NoImage]
  /\ rpc = "idle"
  /\ obs = NoObservation
  /\ shared = {}
  /\ upc = [u \in Updaters |-> "idle"]
  /\ updateData = [u \in Updaters |-> NoUpdate]
  /\ uorder = [u \in Updaters |-> NoLoadedOrder]
  /\ utx = [u \in Updaters |-> NoImage]
  /\ utxState = [u \in Updaters |-> "none"]
  /\ uresp = [u \in Updaters |-> NoResponse]
  /\ dpc = "idle"
  /\ dorder = 0
  /\ dresp = NoResponse
  /\ catalog = EmptyCatalog
  /\ listing = NoListing
  /\ clients = {}
  /\ broadcast = <<>>
  /\ mutex = 0
  /\ wpc = [c \in Conns |-> "upgrade"]
  /\ nread = [c \in Conns |-> 0]
  /\ bpc = "receive"
  /\ message = NoMessage
  /\ todo = {}
  /\ writes = {}
  /\ sent = {}

\* --------------------------------------------------------------- actions
\* tx.Rollback() followed by the error response
Abort(p, r) ==
  /\ tx' = [tx EXCEPT ![p] = NoImage]
  /\ txState' = [txState EXCEPT ![p] = "rolledback"]
  /\ lock' = IF lock = p THEN 0 ELSE lock
  /\ resp' = [resp EXCEPT ![p] = r]
  /\ pc' = [pc EXCEPT ![p] = "done"]
  /\ UNCHANGED dbvars

\* BodyParser and validate.Struct; a body that passes reaches db.DB.Begin()
Receive(p, r) ==
  /\ pc[p] = "idle"
  /\ requestData' = [requestData EXCEPT ![p] = r]
  /\ IF ~r.WellFormed
       THEN /\ resp' = [resp EXCEPT ![p] = Response(400, "ParseError", 0)]
            /\ pc' = [pc EXCEPT ![p] = "done"]
            /\ UNCHANGED txState
     ELSE IF ~ValidateStruct(r)
       THEN /\ resp' = [resp EXCEPT ![p] = Response(400, "ValidationError", 0)]
            /\ pc' = [pc EXCEPT ![p] = "done"]
            /\ UNCHANGED txState
     ELSE /\ txState' = [txState EXCEPT ![p] = "open"]
          /\ pc' = [pc EXCEPT ![p] = "create"]
          /\ UNCHANGED resp
  /\ UNCHANGED <<dbvars, lock, order, orderItems, idx, tx, snap, stock0, readvars, updvars, restvars>>

\* variant: no writer lock, every transaction writes at once
WriterLockFree_noLock(p) == TRUE

\* the INSERT of tx.Create(&order) can start once no other connection
\* holds the writer lock
WriterLockFree(p) == lock = 0

\* variant: the header is inserted through db.DB instead of tx, so it is
\* committed on its own
CreateOrder_outsideTx(p) ==
  /\ pc[p] = "create"
  /\ WriterLockFree(p)
  /\ lock' = p
  /\ LET id == seq.orders + 1
         row == OrderRow(requestData[p], id) IN
       /\ order' = [order EXCEPT ![p] = row]
       /\ orders' = orders \cup {row}
       /\ seq' = [seq EXCEPT !.orders = id]
       /\ tx' = [tx EXCEPT ![p] = [Committed EXCEPT !.orders = @ \cup {row},
                                                     !.seq.orders = id]]
  /\ snap' = [snap EXCEPT ![p] = Committed]
  /\ pc' = [pc EXCEPT ![p] = "check"]
  /\ UNCHANGED <<stock, order_items, requestData, orderItems, idx, txState, resp, stock0, readvars, updvars, restvars>>

\* variant: every header is given the same key
CreateOrder_fixedID(p) ==
  /\ pc[p] = "create"
  /\ WriterLockFree(p)
  /\ lock' = p
  /\ LET id == 1
         row == OrderRow(requestData[p], id) IN
       /\ order' = [order EXCEPT ![p] = row]
       /\ tx' = [tx EXCEPT ![p] = [Committed EXCEPT !.orders = @ \cup {row},
                                                     !.seq.orders = id]]
  /\ snap' = [snap EXCEPT ![p] = Committed]
  /\ pc' = [pc EXCEPT ![p] = "check"]
  /\ UNCHANGED <<dbvars, requestData, orderItems, idx, txState, resp, stock0, readvars, updvars, restvars>>

\* tx.Create(&order): takes the writer lock, inserts the header into the
\* transaction's image and obtains order.ID
CreateOrder(p) ==
  /\ pc[p] = "create"
  /\ WriterLockFree(p)
  /\ lock' = p
  /\ LET id == seq.orders + 1
         row == OrderRow(requestData[p], id) IN
       /\ order' = [order EXCEPT ![p] = row]
       /\ tx' = [tx EXCEPT ![p] = [Committed EXCEPT !.orders = @ \cup {row},
                                                     !.seq.orders = id]]
  /\ snap' = [snap EXCEPT ![p] = Committed]
  /\ pc' = [pc EXCEPT ![p] = "check"]
  /\ UNCHANGED <<dbvars, requestData, orderItems, idx, txState, resp, stock0, readvars, updvars, restvars>>

\* the loop over requestData.OrderItems: tx.First and the quantity test
CheckStock(p) ==
  /\ pc[p] = "check"
  /\ LET res == CheckItems(requestData[p].OrderItems, 1, tx[p]) IN
       IF res.err # ""
         THEN /\ Abort(p, Response(400, res.err, res.pid))
              /\ UNCHANGED <<requestData, order, orderItems, idx, snap, stock0, readvars, updvars, restvars>>
         ELSE /\ orderItems' = [orderItems EXCEPT ![p] =
                                  BuildOrderItems(requestData[p].OrderItems, order[p].ID)]
              /\ pc' = [pc EXCEPT ![p] = "items"]
              /\ UNCHANGED <<dbvars, lock, requestData, order, idx, tx, txState,
                             resp, snap, stock0, readvars, updvars, restvars>>

\* tx.Create(&orderItems); gorm refuses an empty slice (ErrEmptySlice)
CreateOrderItems(p) ==
  /\ pc[p] = "items"
  /\ IF orderItems[p] = <<>>
       THEN /\ Abort(p, Response(500, "Failed to create order items", 0))
            /\ UNCHANGED <<requestData, order, orderItems, idx, snap, stock0, readvars, updvars, restvars>>
       ELSE /\ tx' = [tx EXCEPT ![p].order_items =
                         @ \cup ItemRows(orderItems[p], tx[p].seq.order_items),
                       ![p].seq.order_items = @ + Len(orderItems[p])]
            /\ idx' = [idx EXCEPT ![p] = 0]
            /\ pc' = [pc EXCEPT ![p] = "update"]
            /\ UNCHANGED <<dbvars, lock, requestData, order, orderItems, txState,
                           resp, snap, stock0, readvars, updvars, restvars>>

\* variant: the quantity update runs on db.DB instead of tx, so it is
\* committed on its own
UpdateStock_outsideTx(p) ==
  /\ pc[p] = "update"
  /\ idx[p] < Len(orderItems[p])
  /\ LET it == orderItems[p][idx[p] + 1] IN
       /\ stock' = UpdateQuantity(stock, it.ProductID, it.Quantity)
       /\ tx' = [tx EXCEPT ![p].stock = UpdateQuantity(@, it.ProductID, it.Quantity)]
  /\ idx' = [idx EXCEPT ![p] = @ + 1]
  /\ pc' = [pc EXCEPT ![p] = IF idx[p] + 1 = Len(orderItems[p]) THEN "commit" ELSE "update"]
  /\ UNCHANGED <<orders, order_items, seq, lock, requestData, order, orderItems,
                 txState, resp, snap, stock0, readvars, updvars, restvars>>

\* one round of the loop over orderItems: the quantity update of one line
UpdateStock(p) ==
  /\ pc[p] = "update"
  /\ idx[p] < Len(orderItems[p])
  /\ LET it == orderItems[p][idx[p] + 1] IN
       tx' = [tx EXCEPT ![p].stock = UpdateQuantity(@, it.ProductID, it.Quantity)]
  /\ idx' = [idx EXCEPT ![p] = @ + 1]
  /\ pc' = [pc EXCEPT ![p] = IF idx[p] + 1 = Len(orderItems[p]) THEN "commit" ELSE "update"]
  /\ UNCHANGED <<dbvars, lock, requestData, order, orderItems, txState, resp, snap, stock0, readvars, updvars, restvars>>

\* variant: a COMMIT does not wait for the connections that have read
NoOtherReader_dontWait(c) == TRUE

\* COMMIT needs the EXCLUSIVE lock, which waits until no other connection
\* holds the SHARED lock
NoOtherReader(c) == shared \subseteq {c}

\* tx.Commit(): the image becomes the committed tables, the lock is released
Commit(p) ==
  /\ pc[p] = "commit"
  /\ NoOtherReader(p)
  /\ stock' = tx[p].stock
  /\ orders' = tx[p].orders
  /\ order_items' = tx[p].order_items
  /\ seq' = tx[p].seq
  /\ lock' = 0
  /\ tx' = [tx EXCEPT ![p] = NoImage]
  /\ txState' = [txState EXCEPT ![p] = "committed"]
  /\ pc' = [pc EXCEPT ![p] = "respond"]
  /\ UNCHANGED <<requestData, order, orderItems, idx, resp, snap, stock0, readvars, updvars, restvars>>

\* db.DB.Preload("OrderItems.Product").First(&fullOrder, id): the order is
\* found and the product of each of its lines is found
FullOrderLoads(id) ==
  /\ \E o \in orders : o.ID = id
  /\ \A it \in order_items :
       (it.OrderID = id /\ it.ProductID \in Products) => ProductFound(Committed, it.ProductID)

\* variant: a failed read after the commit takes the order, its lines and
\* the stock decrements back
Respond_undoOnError(p) ==
  /\ pc[p] = "respond"
  /\ pc' = [pc EXCEPT ![p] = "done"]
  /\ IF requestData[p].UserID \notin Users \/ ~FullOrderLoads(order[p].ID)
       THEN /\ resp' = [resp EXCEPT ![p] = Response(500, "Order created but failed to load full details", 0)]
            /\ orders' = orders \ {order[p]}
            /\ order_items' = {it \in order_items : it.OrderID # order[p].ID}
            /\ stock' = [q \in Products |-> stock[q] + SumQty(requestData[p].OrderItems, q)]
            /\ UNCHANGED seq
       ELSE /\ resp' = [resp EXCEPT ![p] = Response(201, "", order[p].ID)]
            /\ UNCHANGED dbvars
  /\ UNCHANGED <<lock, requestData, order, orderItems, idx, tx, txState, snap, stock0, readvars, updvars, restvars>>

\* the reads after the commit: the user with its orders, then the full order
Respond(p) ==
  /\ pc[p] = "respond"
  /\ resp' = [resp EXCEPT ![p] =
       IF requestData[p].UserID \notin Users
         THEN Response(500, "Order created but failed to verify user association", 0)
       ELSE IF ~FullOrderLoads(order[p].ID)
         THEN Response(500, "Order created but failed to load full details", 0)
       ELSE Response(201, "", order[p].ID)]
  /\ pc' = [pc EXCEPT ![p] = "done"]
  /\ UNCHANGED <<dbvars, lock, requestData, order, orderItems, idx, tx, txState, snap, stock0, readvars, updvars, restvars>>

\* the bodies a handler may receive: handler 1 any body, the competing
\* handler a valid body with a single line for an existing product
CompetingRequests ==
  {GoodRequest(k, 1, <<Item(q, n)>>) : k \in Kinds, q \in Products, n \in 1..MaxQty}

RequestsOf(p) == IF p = 1 THEN Requests ELSE CompetingRequests

Next ==
  \E p \in Procs :
    \/ \E r \in RequestsOf(p) : Receive(p, r)
    \/ CreateOrder(p)
    \/ CheckStock(p)
    \/ CreateOrderItems(p)
    \/ UpdateStock(p)
    \/ Commit(p)
    \/ Respond(p)

Spec == Init /\ [][Next]_vars

\* ------------------------------------------------------- storage failures
\* tx.Create(&order) returns an error (I/O error, or the busy handler gave
\* up waiting for the writer lock)
FailCreateOrder(p) ==
  /\ pc[p] = "create"
  /\ Abort(p, Response(500, "Failed to create order", 0))
  /\ UNCHANGED <<requestData, order, orderItems, idx, snap, stock0, readvars, updvars, restvars>>

\* tx.First(&product, ...) of line i returns an error other than a missing
\* row, after the lines before it passed; the handler answers as for a
\* missing product
FailFirst(p, i) ==
  /\ pc[p] = "check"
  /\ i \in 1..Len(requestData[p].OrderItems)
  /\ CheckItems(SubSeq(requestData[p].OrderItems, 1, i - 1), 1, tx[p]).err = ""
  /\ Abort(p, Response(400, "ProductNotFound", requestData[p].OrderItems[i].ProductID))
  /\ UNCHANGED <<requestData, order, orderItems, idx, snap, stock0, readvars, updvars, restvars>>

\* tx.Create(&orderItems) returns an error
FailCreateOrderItems(p) ==
  /\ pc[p] = "items"
  /\ Abort(p, Response(500, "Failed to create order items", 0))
  /\ UNCHANGED <<requestData, order, orderItems, idx, snap, stock0, readvars, updvars, restvars>>

\* a quantity update returns an error, possibly after earlier ones ran
FailUpdateStock(p) ==
  /\ pc[p] = "update"
  /\ Abort(p, Response(500, "Failed to update product quantities", 0))
  /\ UNCHANGED <<requestData, order, orderItems, idx, snap, stock0, readvars, updvars, restvars>>

\* tx.Commit() returns an error: nothing of the image is installed and the
\* connection is released; the handler does not call tx.Rollback()
FailCommit(p) ==
  /\ pc[p] = "commit"
  /\ tx' = [tx EXCEPT ![p] = NoImage]
  /\ txState' = [txState EXCEPT ![p] = "commitfailed"]
  /\ lock' = IF lock = p THEN 0 ELSE lock
  /\ resp' = [resp EXCEPT ![p] = Response(500, "Failed to commit transaction", 0)]
  /\ pc' = [pc EXCEPT ![p] = "done"]
  /\ UNCHANGED <<dbvars, requestData, order, orderItems, idx, snap, stock0, readvars, updvars, restvars>>

\* one of the two reads after the commit returns an error
FailRespond(p) ==
  /\ pc[p] = "respond"
  /\ \E e \in {"Order created but failed to verify user association",
              "Order created but failed to load full details"} :
       resp' = [resp EXCEPT ![p] = Response(500, e, 0)]
  /\ pc' = [pc EXCEPT ![p] = "done"]
  /\ UNCHANGED <<dbvars, lock, requestData, order, orderItems, idx, tx, txState, snap, stock0, readvars, updvars, restvars>>

\* bodies used while storage steps may fail
FaultRequests ==
  {GoodRequest(k, 1, its) : k \in Kinds, its \in SeqsUpTo(GoodItems, 2)} \cup UserRequests

FaultRequestsOf(p) == IF p = 1 THEN FaultRequests ELSE CompetingRequests

NextFault ==
  \E p \in Procs :
    \/ \E r \in FaultRequestsOf(p) : Receive(p, r)
    \/ CreateOrder(p)
    \/ CheckStock(p)
    \/ CreateOrderItems(p)
    \/ UpdateStock(p)
    \/ Commit(p)
    \/ Respond(p)
    \/ FailCreateOrder(p)
    \/ \E i \in 1..MaxLines : FailFirst(p, i)
    \/ FailCreateOrderItems(p)
    \/ FailUpdateStock(p)
    \/ FailCommit(p)
    \/ FailRespond(p)

SpecFault == Init /\ [][NextFault]_vars

\* ---------------------------------------------------------------- readers
\* getAllOrders, first statement: SELECT of the orders
FindOrders ==
  /\ rpc = "idle"
  /\ obs' = [obs EXCEPT !.orders = orders, !.handler = "getAllOrders"]
  /\ rpc' = "orders"
  /\ UNCHANGED <<dbvars, placevars, stock0, updvars, restvars>>

\* getAllOrders, preload of OrderItems: the lines of the orders just read
PreloadOrderItems ==
  /\ rpc = "orders"
  /\ obs' = [obs EXCEPT !.order_items =
               {it \in order_items : \E o \in obs.orders : it.OrderID = o.ID}]
  /\ rpc' = "items"
  /\ UNCHANGED <<dbvars, placevars, stock0, updvars, restvars>>

\* getAllOrders / getOrder, preload of OrderItems.Product: the products of
\* those lines; a product that cannot be fetched fails the whole statement,
\* which getAllOrders answers with 500 and getOrder with 404
PreloadProduct ==
  /\ rpc = "items"
  /\ LET need == {it.ProductID : it \in obs.order_items} \cap Products IN
       obs' = IF \A q \in need : ProductFound(Committed, q)
                THEN [obs EXCEPT !.products = [q \in need |-> stock[q]], !.status = 200]
                ELSE [obs EXCEPT !.status = IF obs.handler = "getOrder" THEN 404 ELSE 500]
  /\ rpc' = "done"
  /\ UNCHANGED <<dbvars, placevars, stock0, updvars, restvars>>

\* getOrder, first statement: SELECT of the order by id; no row is answered
\* with 404
GetOrder(id) ==
  /\ rpc = "idle"
  /\ IF \A o \in orders : o.ID # id
       THEN /\ obs' = [obs EXCEPT !.handler = "getOrder", !.status = 404]
            /\ rpc' = "done"
       ELSE /\ obs' = [obs EXCEPT !.handler = "getOrder",
                                  !.orders = {o \in orders : o.ID = id}]
            /\ rpc' = "orders"
  /\ UNCHANGED <<dbvars, placevars, stock0, updvars, restvars>>

\* getAllProducts: one SELECT of the products; a row that cannot be scanned
\* fails the statement
FindProducts ==
  /\ rpc = "idle"
  /\ obs' = IF \A q \in Products : ProductFound(Committed, q)
              THEN [obs EXCEPT !.products = stock, !.handler = "getAllProducts", !.status = 200]
              ELSE [obs EXCEPT !.handler = "getAllProducts", !.status = 500]
  /\ rpc' = "done"
  /\ UNCHANGED <<dbvars, placevars, stock0, updvars, restvars>>

\* the reading handler returns its JSON and the next read request arrives
ReadReturn ==
  /\ rpc = "done"
  /\ obs' = NoObservation
  /\ rpc' = "idle"
  /\ UNCHANGED <<dbvars, placevars, stock0, updvars, restvars>>

\* bodies used while a reader runs alongside the placements
ReadRequests ==
  {GoodRequest(k, 1, its) : k \in Kinds,
      its \in SeqsUpTo({Item(q, n) : q \in Products, n \in 1..MaxQty}, 2)}

ReadRequestsOf(p) == IF p = 1 THEN ReadRequests ELSE CompetingRequests

NextRead ==
  \/ FindOrders
  \/ PreloadOrderItems
  \/ PreloadProduct
  \/ FindProducts
  \/ \E id \in 1..MissingOrder : GetOrder(id)
  \/ ReadReturn
  \/ \E p \in Procs :
       \/ \E r \in ReadRequestsOf(p) : Receive(p, r)
       \/ CreateOrder(p)
       \/ CheckStock(p)
       \/ CreateOrderItems(p)
       \/ UpdateStock(p)
       \/ Commit(p)
       \/ Respond(p)

SpecRead == Init /\ [][NextRead]_vars

\* ------------------------------------------------------------ updateOrder
\* tx.Rollback() of updateOrder followed by the error response
UAbort(u, r) ==
  /\ utx' = [utx EXCEPT ![u] = NoImage]
  /\ utxState' = [utxState EXCEPT ![u] = "rolledback"]
  /\ shared' = shared \ {u}
  /\ lock' = IF lock = u THEN 0 ELSE lock
  /\ uresp' = [uresp EXCEPT ![u] = r]
  /\ upc' = [upc EXCEPT ![u] = "done"]
  /\ UNCHANGED dbvars

\* BodyParser and validate.Struct; a body that passes reaches db.DB.Begin()
UReceive(u, r) ==
  /\ upc[u] = "idle"
  /\ updateData' = [updateData EXCEPT ![u] = r]
  /\ IF ~r.WellFormed
       THEN /\ uresp' = [uresp EXCEPT ![u] = Response(400, "ParseError", 0)]
            /\ upc' = [upc EXCEPT ![u] = "done"]
            /\ UNCHANGED utxState
     ELSE IF ~ValidateUpdate(r)
       THEN /\ uresp' = [uresp EXCEPT ![u] = Response(400, "ValidationError", 0)]
            /\ upc' = [upc EXCEPT ![u] = "done"]
            /\ UNCHANGED utxState
     ELSE /\ utxState' = [utxState EXCEPT ![u] = "open"]
          /\ upc' = [upc EXCEPT ![u] = "first"]
          /\ UNCHANGED uresp
  /\ UNCHANGED <<dbvars, lock, shared, uorder, utx, stock0,
                 pc, requestData, order, orderItems, idx, tx, txState, resp, snap, readvars, restvars>>

\* variant: a missing order is answered without ending the transaction
UFirst_noRollback(u) ==
  /\ upc[u] = "first"
  /\ IF \A o \in orders : o.ID # updateData[u].ID
       THEN /\ uresp' = [uresp EXCEPT ![u] = Response(404, "OrderNotFound", 0)]
            /\ upc' = [upc EXCEPT ![u] = "done"]
            /\ shared' = shared \cup {u}
            /\ UNCHANGED <<dbvars, lock, uorder, utx, utxState>>
       ELSE /\ uorder' = [uorder EXCEPT ![u] =
                  [row |-> CHOOSE o \in orders : o.ID = updateData[u].ID,
                   OrderItems |-> {it \in order_items : it.OrderID = updateData[u].ID}]]
            /\ shared' = shared \cup {u}
            /\ upc' = [upc EXCEPT ![u] = "save"]
            /\ UNCHANGED <<dbvars, lock, utx, utxState, uresp>>
  /\ UNCHANGED <<updateData, stock0,
                 pc, requestData, order, orderItems, idx, tx, txState, resp, snap, readvars, restvars>>

\* tx.Preload("OrderItems").First(&order, requestData.ID): the first read of
\* the transaction takes the SHARED lock, held until the transaction ends
UFirst(u) ==
  /\ upc[u] = "first"
  /\ IF \A o \in orders : o.ID # updateData[u].ID
       THEN /\ UAbort(u, Response(404, "OrderNotFound", 0))
            /\ UNCHANGED uorder
       ELSE /\ uorder' = [uorder EXCEPT ![u] =
                  [row |-> CHOOSE o \in orders : o.ID = updateData[u].ID,
                   OrderItems |-> {it \in order_items : it.OrderID = updateData[u].ID}]]
            /\ shared' = shared \cup {u}
            /\ upc' = [upc EXCEPT ![u] = "save"]
            /\ UNCHANGED <<dbvars, lock, utx, utxState, uresp>>
  /\ UNCHANGED <<updateData, stock0,
                 pc, requestData, order, orderItems, idx, tx, txState, resp, snap, readvars, restvars>>

\* the field assignments and tx.Save(&order).  A connection that holds the
\* SHARED lock is refused the writer lock at once while another connection
\* holds it (SQLITE_BUSY without the busy handler): Save fails, the handler
\* rolls back
USave(u) ==
  /\ upc[u] = "save"
  /\ IF lock # 0
       THEN /\ UAbort(u, Response(500, "Failed to update order", 0))
            /\ UNCHANGED uorder
       ELSE LET new == ApplyUpdate(uorder[u].row, updateData[u]) IN
            /\ lock' = u
            /\ uorder' = [uorder EXCEPT ![u].row = new]
            /\ utx' = [utx EXCEPT ![u] =
                  [Committed EXCEPT
                     !.orders = {o \in @ : o.ID # new.ID} \cup {new},
                     !.order_items = UpsertItems(@, uorder[u].OrderItems, new.ID)]]
            /\ upc' = [upc EXCEPT ![u] = "commit"]
            /\ UNCHANGED <<dbvars, shared, utxState, uresp>>
  /\ UNCHANGED <<updateData, stock0,
                 pc, requestData, order, orderItems, idx, tx, txState, resp, snap, readvars, restvars>>

\* tx.Commit() of updateOrder
UCommit(u) ==
  /\ upc[u] = "commit"
  /\ NoOtherReader(u)
  /\ stock' = utx[u].stock
  /\ orders' = utx[u].orders
  /\ order_items' = utx[u].order_items
  /\ seq' = utx[u].seq
  /\ lock' = 0
  /\ shared' = shared \ {u}
  /\ utx' = [utx EXCEPT ![u] = NoImage]
  /\ utxState' = [utxState EXCEPT ![u] = "committed"]
  /\ upc' = [upc EXCEPT ![u] = "respond"]
  /\ UNCHANGED <<updateData, uorder, uresp, stock0,
                 pc, requestData, order, orderItems, idx, tx, txState, resp, snap, readvars, restvars>>

\* the read after the commit: the full order for the response
URespond(u) ==
  /\ upc[u] = "respond"
  /\ uresp' = [uresp EXCEPT ![u] =
       IF ~FullOrderLoads(uorder[u].row.ID)
         THEN Response(500, "Order updated but failed to load full details", 0)
       ELSE Response(200, "", uorder[u].row.ID)]
  /\ upc' = [upc EXCEPT ![u] = "done"]
  /\ UNCHANGED <<dbvars, lock, shared, updateData, uorder, utx, utxState, stock0,
                 pc, requestData, order, orderItems, idx, tx, txState, resp, snap, readvars, restvars>>

\* a body that supplies the fields of both kinds and the common fields
FullUpdate(id) == UpdateBody(id, 2, 1, "paid", "777", "bob", "globex", "99", "note")

\* bodies of updateOrder: for every order id, no field, every field, the
\* fields of one kind, one common field; and bodies that do not validate
UpdateRequests ==
  UNION {
    { UpdateBody(id, 0, 0, "", "", "", "", "", ""),
      FullUpdate(id),
      UpdateBody(id, 0, 0, "", "777", "bob", "", "", ""),
      UpdateBody(id, 0, 0, "", "", "", "globex", "99", "note"),
      UpdateBody(id, 0, 0, "paid", "", "", "", "", ""),
      UpdateBody(id, 2, 0, "", "", "", "", "", "") }
    : id \in 1..MissingOrder }
  \cup { [FullUpdate(0) EXCEPT !.ID = 0],
         [FullUpdate(1) EXCEPT !.Price = -1],
         [FullUpdate(1) EXCEPT !.Bonus = -1],
         [FullUpdate(1) EXCEPT !.WellFormed = FALSE] }

\* the second updateOrder request changes one common field of order 1, or
\* repeats a body of the first: no field, every field
CompetingUpdates ==
  { UpdateBody(1, 0, 0, "sent", "", "", "", "", ""),
    UpdateBody(1, 0, 1, "", "", "", "", "", ""),
    UpdateBody(1, 0, 0, "", "", "", "", "", ""),
    FullUpdate(1) }

UpdateRequestsOf(u) ==
  IF u = Cardinality(Procs) + 1 THEN UpdateRequests ELSE CompetingUpdates

\* placements that create the orders the updates work on
UpdatePlacements(p) ==
  IF p = 1 THEN { GoodRequest("individual", 1, <<Item(1, 1)>>),
                  GoodRequest("individual", 1, <<Item(1, 1), Item(2, 1)>>) }
           ELSE { GoodRequest("legal", 1, <<Item(2, 1)>>) }

NextUpdate ==
  \/ \E u \in Updaters :
       \/ \E r \in UpdateRequestsOf(u) : UReceive(u, r)
       \/ UFirst(u)
       \/ USave(u)
       \/ UCommit(u)
       \/ URespond(u)
  \/ \E p \in Procs :
       \/ \E r \in UpdatePlacements(p) : Receive(p, r)
       \/ CreateOrder(p)
       \/ CheckStock(p)
       \/ CreateOrderItems(p)
       \/ UpdateStock(p)
       \/ Commit(p)
       \/ Respond(p)

SpecUpdate == Init /\ [][NextUpdate]_vars

\* ------------------------------------------------------------ deleteOrder
\* the connection db.DB.Delete runs on, as a holder of the writer lock
Deleter == Cardinality(Procs) + Cardinality(Updaters) + 1

\* db.DB.First(&order, id): no row is answered with 404
DFirst(id) ==
  /\ dpc = "idle"
  /\ IF \A o \in orders : o.ID # id
       THEN /\ dresp' = Response(404, "OrderNotFound", 0)
            /\ dpc' = "done"
            /\ UNCHANGED dorder
       ELSE /\ dorder' = id
            /\ dpc' = "delete"
            /\ UNCHANGED dresp
  /\ UNCHANGED <<dbvars, placevars, stock0, readvars, updvars, catvars, wsvars>>

\* db.DB.Delete(&order), the statement: DELETE FROM orders WHERE id = ? in a
\* transaction of its own, which takes the writer lock
DDelete ==
  /\ dpc = "delete"
  /\ WriterLockFree(Deleter)
  /\ lock' = Deleter
  /\ dpc' = "commit"
  /\ UNCHANGED <<dbvars, pc, requestData, order, orderItems, idx, tx, txState, resp, snap,
                 stock0, readvars, updvars, dorder, dresp, catvars, wsvars>>

\* variant: the lines of the order are deleted with it
DCommit_cascade ==
  /\ dpc = "commit"
  /\ NoOtherReader(Deleter)
  /\ orders' = {o \in orders : o.ID # dorder}
  /\ order_items' = {it \in order_items : it.OrderID # dorder}
  /\ lock' = 0
  /\ dresp' = Response(200, "", 0)
  /\ dpc' = "done"
  /\ UNCHANGED <<stock, seq, pc, requestData, order, orderItems, idx, tx, txState, resp, snap,
                 stock0, readvars, updvars, dorder, catvars, wsvars>>

\* db.DB.Delete(&order), its commit: the row of the order is gone, the rows
\* of order_items and the stock stay; the success envelope is returned
DCommit ==
  /\ dpc = "commit"
  /\ NoOtherReader(Deleter)
  /\ orders' = {o \in orders : o.ID # dorder}
  /\ lock' = 0
  /\ dresp' = Response(200, "", 0)
  /\ dpc' = "done"
  /\ UNCHANGED <<stock, order_items, seq, pc, requestData, order, orderItems, idx, tx, txState,
                 resp, snap, stock0, readvars, updvars, dorder, catvars, wsvars>>

\* the handler has returned and the next DELETE request arrives
DReturn ==
  /\ dpc = "done"
  /\ dpc' = "idle"
  /\ dorder' = 0
  /\ dresp' = NoResponse
  /\ UNCHANGED <<dbvars, placevars, stock0, readvars, updvars, catvars, wsvars>>

\* bodies of updateOrder used alongside deletions
DeleteUpdates == {FullUpdate(id) : id \in 1..Cardinality(Procs)}

NextDelete ==
  \/ \E id \in 1..MissingOrder : DFirst(id)
  \/ DDelete
  \/ DCommit
  \/ DReturn
  \/ \E u \in {Cardinality(Procs) + 1} :
       \/ \E r \in DeleteUpdates : UReceive(u, r)
       \/ UFirst(u)
       \/ USave(u)
       \/ UCommit(u)
       \/ URespond(u)
  \/ \E p \in Procs :
       \/ \E r \in UpdatePlacements(p) : Receive(p, r)
       \/ CreateOrder(p)
       \/ CheckStock(p)
       \/ CreateOrderItems(p)
       \/ UpdateStock(p)
       \/ Commit(p)
       \/ Respond(p)

SpecDelete == Init /\ [][NextDelete]_vars

\* ------------------------------------------- storage failures of updateOrder
\* tx.Preload("OrderItems").First returns an error other than a missing row;
\* the handler rolls back and answers as for a missing order
UFailFirst(u) ==
  /\ upc[u] = "first"
  /\ UAbort(u, Response(404, "OrderNotFound", 0))
  /\ UNCHANGED <<updateData, uorder, stock0,
                 pc, requestData, order, orderItems, idx, tx, txState, resp, snap, readvars, restvars>>

\* tx.Save(&order) returns an error
UFailSave(u) ==
  /\ upc[u] = "save"
  /\ UAbort(u, Response(500, "Failed to update order", 0))
  /\ UNCHANGED <<updateData, uorder, stock0,
                 pc, requestData, order, orderItems, idx, tx, txState, resp, snap, readvars, restvars>>

\* variant: a failed tx.Commit() leaves the transaction as it was
UFailCommit_leftOpen(u) ==
  /\ upc[u] = "commit"
  /\ uresp' = [uresp EXCEPT ![u] = Response(500, "Failed to commit transaction", 0)]
  /\ upc' = [upc EXCEPT ![u] = "done"]
  /\ UNCHANGED <<dbvars, lock, shared, utx, utxState, updateData, uorder, stock0,
                 pc, requestData, order, orderItems, idx, tx, txState, resp, snap, readvars, restvars>>

\* tx.Commit() returns an error: nothing of the image is installed, the
\* driver rolls the transaction back and the connection is released; the
\* handler does not call tx.Rollback()
UFailCommit(u) ==
  /\ upc[u] = "commit"
  /\ utx' = [utx EXCEPT ![u] = NoImage]
  /\ utxState' = [utxState EXCEPT ![u] = "commitfailed"]
  /\ shared' = shared \ {u}
  /\ lock' = IF lock = u THEN 0 ELSE lock
  /\ uresp' = [uresp EXCEPT ![u] = Response(500, "Failed to commit transaction", 0)]
  /\ upc' = [upc EXCEPT ![u] = "done"]
  /\ UNCHANGED <<dbvars, updateData, uorder, stock0,
                 pc, requestData, order, orderItems, idx, tx, txState, resp, snap, readvars, restvars>>

\* the read after the commit returns an error
UFailRespond(u) ==
  /\ upc[u] = "respond"
  /\ uresp' = [uresp EXCEPT ![u] =
       Response(500, "Order updated but failed to load full details", 0)]
  /\ upc' = [upc EXCEPT ![u] = "done"]
  /\ UNCHANGED <<dbvars, lock, shared, updateData, uorder, utx, utxState, stock0,
                 pc, requestData, order, orderItems, idx, tx, txState, resp, snap, readvars, restvars>>

\* bodies of the placements while every storage step of the placements and
\* of the updates may fail
TxPlacements(p) ==
  IF p = 1 THEN { GoodRequest("individual", 1, <<Item(1, 1)>>),
                  GoodRequest("individual", 1, <<Item(1, MaxStock + 1)>>),
                  GoodRequest("legal", 1, <<Item(MissingProduct, 1)>>),
                  GoodRequest("legal", 1, <<>>) }
           ELSE { GoodRequest("legal", 1, <<Item(2, 1)>>) }

\* bodies of the updates alongside them
TxUpdates(u) ==
  IF u = Cardinality(Procs) + 1
    THEN { FullUpdate(1), FullUpdate(MissingOrder) }
    ELSE { UpdateBody(1, 0, 1, "", "", "", "", "", "") }

NextTx ==
  \/ \E u \in Updaters :
       \/ \E r \in TxUpdates(u) : UReceive(u, r)
       \/ UFirst(u)
       \/ USave(u)
       \/ UCommit(u)
       \/ URespond(u)
       \/ UFailFirst(u)
       \/ UFailSave(u)
       \/ UFailCommit(u)
       \/ UFailRespond(u)
  \/ \E p \in Procs :
       \/ \E r \in TxPlacements(p) : Receive(p, r)
       \/ CreateOrder(p)
       \/ CheckStock(p)
       \/ CreateOrderItems(p)
       \/ UpdateStock(p)
       \/ Commit(p)
       \/ Respond(p)
       \/ FailCreateOrder(p)
       \/ \E i \in 1..MaxLines : FailFirst(p, i)
       \/ FailCreateOrderItems(p)
       \/ FailUpdateStock(p)
       \/ FailCommit(p)
       \/ FailRespond(p)

SpecTx == Init /\ [][NextTx]_vars

\* ---------------------------------------------------------------- catalog
\* one catalog request is served at a time; names are sequences of
\* characters; the bodies of createProduct,
\* createCategory and createBrand
ProductInputs ==
  { [Name |-> <<"a", "b">>, CategoryID |-> 1, BrandID |-> 0],
    [Name |-> <<"c">>, CategoryID |-> 2, BrandID |-> 1],
    [Name |-> <<"c">>, CategoryID |-> 0, BrandID |-> 1] }
CategoryNames == {<<"a">>, <<"d">>}
BrandNames == {<<"d", "e">>}

\* the response of a handler that lists nothing
Answer(handler, status, q) ==
  [NoListing EXCEPT !.handler = handler, !.status = status, !.query = q]

\* createProduct: a category id that is given must exist; the row gets the
\* next id
CreateProduct(in) ==
  /\ listing = NoListing
  /\ Len(catalog.products) < MaxCatalog
  /\ IF in.CategoryID # 0 /\ \A i \in 1..Len(catalog.categories) : catalog.categories[i].ID # in.CategoryID
       THEN /\ listing' = Answer("createProduct", 400, NoQuery)
            /\ UNCHANGED catalog
       ELSE /\ catalog' = [catalog EXCEPT !.products =
                 Append(@, [ID |-> Len(@) + 1, Name |-> in.Name,
                            CategoryID |-> in.CategoryID, BrandID |-> in.BrandID])]
            /\ listing' = Answer("createProduct", 201, NoQuery)
  /\ UNCHANGED <<dbvars, placevars, stock0, readvars, updvars, delvars, wsvars>>

\* createCategory
CreateCategory(name) ==
  /\ listing = NoListing
  /\ Len(catalog.categories) < Cardinality(CategoryNames)
  /\ catalog' = [catalog EXCEPT !.categories = Append(@, [ID |-> Len(@) + 1, Name |-> name])]
  /\ listing' = Answer("createCategory", 201, NoQuery)
  /\ UNCHANGED <<dbvars, placevars, stock0, readvars, updvars, delvars, wsvars>>

\* createBrand
CreateBrand(name) ==
  /\ listing = NoListing
  /\ Len(catalog.brands) < Cardinality(BrandNames)
  /\ catalog' = [catalog EXCEPT !.brands = Append(@, [ID |-> Len(@) + 1, Name |-> name])]
  /\ listing' = Answer("createBrand", 201, NoQuery)
  /\ UNCHANGED <<dbvars, placevars, stock0, readvars, updvars, delvars, wsvars>>

\* c.QueryInt(key, d): the number the parameter spells, d when it spells none
QueryInt(p, d) == IF p.raw = "num" THEN p.n ELSE d

\* limit and skip of a listing: -1 and 0 unless the parameter is present
ParseLimit(q) == IF q.limit.raw # "" THEN QueryInt(q.limit, 0) ELSE -1
ParseSkip(q) == IF q.skip.raw # "" THEN QueryInt(q.skip, 0) ELSE 0

Min(a, b) == IF a < b THEN a ELSE b

\* variant: the limit is taken for the position of the last row
Paginate_limitIsLast(rows, skip, limit, total) ==
  LET off == IF skip > 0 THEN skip ELSE 0
      last == Min(IF limit > 0 THEN limit ELSE total, Len(rows))
  IN IF off >= last THEN <<>> ELSE SubSeq(rows, off + 1, last)

\* Offset(skip) when skip > 0, then Limit(limit) when limit > 0 and
\* Limit(total) otherwise, on the rows in stored order
Paginate(rows, skip, limit, total) ==
  LET off == IF skip > 0 THEN skip ELSE 0
      lim == IF limit > 0 THEN limit ELSE total
      last == Min(off + lim, Len(rows))
  IN IF off >= last THEN <<>> ELSE SubSeq(rows, off + 1, last)

\* the listing response: the page, the count, and skip and limit as parsed
Page(handler, rows, q) ==
  [handler |-> handler, status |-> 200,
   items |-> Paginate(rows, ParseSkip(q), ParseLimit(q), Len(rows)),
   total |-> Len(rows), skip |-> ParseSkip(q), limit |-> ParseLimit(q), query |-> q]

\* getAllProducts: limit and skip below 0 are refused; the category filter,
\* the count of the filtered rows, then the page of them
GetAllProducts(q) ==
  /\ listing = NoListing
  /\ LET InCategory(r) == q.category_id = 0 \/ r.CategoryID = q.category_id IN
       listing' = IF q.limit.raw # "" /\ ParseLimit(q) < 0
                    THEN Answer("getAllProducts", 400, q)
                  ELSE IF q.skip.raw # "" /\ ParseSkip(q) < 0
                    THEN Answer("getAllProducts", 400, q)
                  ELSE Page("getAllProducts", SelectSeq(catalog.products, InCategory), q)
  /\ UNCHANGED <<dbvars, placevars, stock0, readvars, updvars, delvars, catalog, wsvars>>

\* var err error of getAllCategories: declared, never assigned, so nil
QueryIntErr == FALSE

\* getAllCategories: the two refusals test err, not the numbers
GetAllCategories(q) ==
  /\ listing = NoListing
  /\ listing' = IF q.limit.raw # "" /\ QueryIntErr
                  THEN Answer("getAllCategories", 400, q)
                ELSE IF q.skip.raw # "" /\ QueryIntErr
                  THEN Answer("getAllCategories", 400, q)
                ELSE Page("getAllCategories", catalog.categories, q)
  /\ UNCHANGED <<dbvars, placevars, stock0, readvars, updvars, delvars, catalog, wsvars>>

\* getAllBrands: limit and skip below 0 are refused
GetAllBrands(q) ==
  /\ listing = NoListing
  /\ listing' = IF q.limit.raw # "" /\ ParseLimit(q) < 0
                  THEN Answer("getAllBrands", 400, q)
                ELSE IF q.skip.raw # "" /\ ParseSkip(q) < 0
                  THEN Answer("getAllBrands", 400, q)
                ELSE Page("getAllBrands", catalog.brands, q)
  /\ UNCHANGED <<dbvars, placevars, stock0, readvars, updvars, delvars, catalog, wsvars>>

\* SQLite's LIKE compares ASCII letters without regard to case
Fold(ch) == IF ch = "A" THEN "a" ELSE ch

\* SQLite's LIKE: % matches any run of characters, _ any one character
RECURSIVE Like(_, _)
Like(pat, str) ==
  IF pat = <<>> THEN str = <<>>
  ELSE IF Head(pat) = "%"
    THEN Like(Tail(pat), str) \/ (str # <<>> /\ Like(pat, Tail(str)))
  ELSE IF str = <<>> THEN FALSE
  ELSE IF Head(pat) = "_" THEN Like(Tail(pat), Tail(str))
  ELSE Fold(Head(pat)) = Fold(Head(str)) /\ Like(Tail(pat), Tail(str))

\* name LIKE "%"+query+"%"
NameLike(name, query) == Like(<<"%">> \o query \o <<"%">>, name)

\* ids of the rows of a table whose name is like the query (Pluck("id"))
PluckIDs(tbl, query) == {tbl[i].ID : i \in {j \in 1..Len(tbl) : NameLike(tbl[j].Name, query)}}

\* searchProducts: an empty q is refused; the products by name, else those
\* of the categories by name if there are any, else those of the brands by
\* name
SearchProducts(query) ==
  /\ listing = NoListing
  /\ LET q == [NoQuery EXCEPT !.q = query]
         ByName(r) == NameLike(r.Name, query)
         ByCategory(r) == r.CategoryID \in PluckIDs(catalog.categories, query)
         ByBrand(r) == r.BrandID \in PluckIDs(catalog.brands, query)
         found == IF SelectSeq(catalog.products, ByName) # <<>>
                    THEN SelectSeq(catalog.products, ByName)
                  ELSE IF SelectSeq(catalog.products, ByCategory) # <<>>
                    THEN SelectSeq(catalog.products, ByCategory)
                  ELSE SelectSeq(catalog.products, ByBrand)
     IN listing' = IF query = <<>>
                     THEN Answer("searchProducts", 400, q)
                   ELSE [Answer("searchProducts", 200, q) EXCEPT !.items = found]
  /\ UNCHANGED <<dbvars, placevars, stock0, readvars, updvars, delvars, catalog, wsvars>>

\* the response has been sent and the next catalog request arrives
CatalogReturn ==
  /\ listing # NoListing
  /\ listing' = NoListing
  /\ UNCHANGED <<dbvars, placevars, stock0, readvars, updvars, delvars, catalog, wsvars>>

\* the query strings of the listings and of the search
SkipParams == {Absent} \cup {Num(n) : n \in -1..MaxCatalog + 1}
LimitParams == {Absent, Junk} \cup {Num(n) : n \in -1..MaxCatalog + 1}
ProductQueries ==
  {[skip |-> s, limit |-> l, category_id |-> c, q |-> <<>>] :
     s \in SkipParams, l \in LimitParams, c \in 0..1}
TableQueries ==
  {[skip |-> s, limit |-> l, category_id |-> 0, q |-> <<>>] :
     s \in {Absent, Num(-1), Num(1)}, l \in {Absent, Num(-1), Num(0), Num(1)}}
Queries == {<<"a">>, <<"A">>, <<"d">>, <<"e">>, <<"_">>, <<>>}

NextCatalog ==
  \/ \E in \in ProductInputs : CreateProduct(in)
  \/ \E name \in CategoryNames : CreateCategory(name)
  \/ \E name \in BrandNames : CreateBrand(name)
  \/ \E q \in ProductQueries : GetAllProducts(q)
  \/ \E q \in TableQueries : GetAllCategories(q)
  \/ \E q \in TableQueries : GetAllBrands(q)
  \/ \E query \in Queries : SearchProducts(query)
  \/ CatalogReturn

SpecCatalog == Init /\ [][NextCatalog]_vars

\* -------------------------------------------------------------- WebSocket
\* the k-th message read from connection c
Msg(c, k) == <<c, k>>

\* the messages the peer of a connection sends: the first peer up to
\* MaxMessages, every other peer one
MessagesOf(c) == IF c = 1 THEN MaxMessages ELSE 1

\* the broadcasting goroutine has closed the connection after a failed write
ClosedByBroadcaster(c) == \E w \in writes : w.client = c /\ ~w.ok

\* upgrader.Upgrade succeeds
Upgrade(c) ==
  /\ wpc[c] = "upgrade"
  /\ wpc' = [wpc EXCEPT ![c] = "lock"]
  /\ UNCHANGED <<dbvars, placevars, stock0, readvars, updvars, delvars, catvars,
                 clients, broadcast, mutex, nread, bpc, message, todo, writes, sent>>

\* mutex.Lock() returns when no goroutine holds the mutex
MutexFree == mutex = 0

\* mutex.Lock() before the registration
WLock(c) ==
  /\ wpc[c] = "lock"
  /\ MutexFree
  /\ mutex' = c
  /\ wpc' = [wpc EXCEPT ![c] = "register"]
  /\ UNCHANGED <<dbvars, placevars, stock0, readvars, updvars, delvars, catvars,
                 clients, broadcast, nread, bpc, message, todo, writes, sent>>

\* clients[conn] = true; mutex.Unlock()
Register(c) ==
  /\ wpc[c] = "register"
  /\ clients' = clients \cup {c}
  /\ mutex' = 0
  /\ wpc' = [wpc EXCEPT ![c] = "read"]
  /\ UNCHANGED <<dbvars, placevars, stock0, readvars, updvars, delvars, catvars,
                 broadcast, nread, bpc, message, todo, writes, sent>>

\* conn.ReadMessage() returns a message
ReadMessage(c) ==
  /\ wpc[c] = "read"
  /\ ~ClosedByBroadcaster(c)
  /\ nread[c] < MessagesOf(c)
  /\ nread' = [nread EXCEPT ![c] = @ + 1]
  /\ wpc' = [wpc EXCEPT ![c] = "send"]
  /\ UNCHANGED <<dbvars, placevars, stock0, readvars, updvars, delvars, catvars,
                 clients, broadcast, mutex, bpc, message, todo, writes, sent>>

\* conn.ReadMessage() returns an error: the peer has gone or the connection
\* was closed
ReadError(c) ==
  /\ wpc[c] = "read"
  /\ wpc' = [wpc EXCEPT ![c] = "droplock"]
  /\ UNCHANGED <<dbvars, placevars, stock0, readvars, updvars, delvars, catvars,
                 clients, broadcast, mutex, nread, bpc, message, todo, writes, sent>>

\* broadcast <- message: blocks while the buffer is full; no mutex is held
Send(c) ==
  /\ wpc[c] = "send"
  /\ Len(broadcast) < BroadcastCap
  /\ broadcast' = Append(broadcast, Msg(c, nread[c]))
  /\ wpc' = [wpc EXCEPT ![c] = "read"]
  /\ UNCHANGED <<dbvars, placevars, stock0, readvars, updvars, delvars, catvars,
                 clients, mutex, nread, bpc, message, todo, writes, sent>>

\* mutex.Lock() after the read error
DropLock(c) ==
  /\ wpc[c] = "droplock"
  /\ MutexFree
  /\ mutex' = c
  /\ wpc' = [wpc EXCEPT ![c] = "drop"]
  /\ UNCHANGED <<dbvars, placevars, stock0, readvars, updvars, delvars, catvars,
                 clients, broadcast, nread, bpc, message, todo, writes, sent>>

\* delete(clients, conn); mutex.Unlock(); break, and the deferred Close
Drop(c) ==
  /\ wpc[c] = "drop"
  /\ clients' = clients \ {c}
  /\ mutex' = 0
  /\ wpc' = [wpc EXCEPT ![c] = "closed"]
  /\ UNCHANGED <<dbvars, placevars, stock0, readvars, updvars, delvars, catvars,
                 broadcast, nread, bpc, message, todo, writes, sent>>

\* for message := range broadcast: the next message is received
BReceive ==
  /\ bpc = "receive"
  /\ broadcast # <<>>
  /\ message' = Head(broadcast)
  /\ broadcast' = Tail(broadcast)
  /\ bpc' = "lock"
  /\ UNCHANGED <<dbvars, placevars, stock0, readvars, updvars, delvars, catvars,
                 clients, mutex, wpc, nread, todo, writes, sent>>

\* mutex.Lock() and the start of the range over clients
BLock ==
  /\ bpc = "lock"
  /\ MutexFree
  /\ mutex' = Broadcaster
  /\ todo' = clients
  /\ sent' = sent \cup {[msg |-> message, due |-> clients]}
  /\ bpc' = "range"
  /\ UNCHANGED <<dbvars, placevars, stock0, readvars, updvars, delvars, catvars,
                 clients, broadcast, wpc, nread, message, writes>>

\* variant: a client whose write failed stays in the map
BWrite_keepFailed(c, ok) ==
  /\ bpc = "range"
  /\ c \in todo
  /\ writes' = writes \cup {[msg |-> message, client |-> c, ok |-> ok]}
  /\ todo' = todo \ {c}
  /\ UNCHANGED clients
  /\ UNCHANGED <<dbvars, placevars, stock0, readvars, updvars, delvars, catvars,
                 broadcast, mutex, wpc, nread, bpc, message, sent>>

\* client.WriteMessage(...) for the next client of the range; when it fails,
\* client.Close() and delete(clients, client)
BWrite(c, ok) ==
  /\ bpc = "range"
  /\ c \in todo
  /\ writes' = writes \cup {[msg |-> message, client |-> c, ok |-> ok]}
  /\ todo' = todo \ {c}
  /\ clients' = IF ok THEN clients ELSE clients \ {c}
  /\ UNCHANGED <<dbvars, placevars, stock0, readvars, updvars, delvars, catvars,
                 broadcast, mutex, wpc, nread, bpc, message, sent>>

\* the range is over: mutex.Unlock() and back to the channel
BUnlock ==
  /\ bpc = "range"
  /\ todo = {}
  /\ mutex' = 0
  /\ message' = NoMessage
  /\ bpc' = "receive"
  /\ UNCHANGED <<dbvars, placevars, stock0, readvars, updvars, delvars, catvars,
                 clients, broadcast, wpc, nread, todo, writes, sent>>

NextWS ==
  \/ \E c \in Conns :
       \/ Upgrade(c)
       \/ WLock(c)
       \/ Register(c)
       \/ ReadMessage(c)
       \/ ReadError(c)
       \/ Send(c)
       \/ DropLock(c)
       \/ Drop(c)
  \/ BReceive
  \/ BLock
  \/ \E c \in Conns, ok \in BOOLEAN : BWrite(c, ok)
  \/ BUnlock

\* every goroutine that can take its next step takes it; when a peer sends
\* or goes away is up to the peer
FairWS ==
  /\ WF_vars(BReceive)
  /\ WF_vars(BLock)
  /\ WF_vars(\E c \in Conns, ok \in BOOLEAN : BWrite(c, ok))
  /\ WF_vars(BUnlock)
  /\ \A c \in Conns :
       /\ WF_vars(WLock(c))
       /\ WF_vars(Register(c))
       /\ WF_vars(Send(c))
       /\ WF_vars(DropLock(c))
       /\ WF_vars(Drop(c))

SpecWS == Init /\ [][NextWS]_vars /\ FairWS

\* ============================================================ properties
Lines(p) == requestData[p].OrderItems

\* total quantity the placements of the handlers in S ask of product q
RECURSIVE SumPlaced(_, _)
SumPlaced(S, q) ==
  IF S = {} THEN 0
  ELSE LET p == CHOOSE x \in S : TRUE IN SumQty(Lines(p), q) + SumPlaced(S \ {p}, q)

CommittedProcs == {p \in Procs : txState[p] = "committed"}

\* the handler is between tx.Create(&order) and the end of its transaction
InTx(p) == pc[p] \in {"check", "items", "update", "commit"}

\* the order_items rows the handler's tx.Create(&orderItems) writes
RowsOf(p) == ItemRows(orderItems[p], snap[p].seq.order_items)

\* C1: in every reachable state every product's stock quantity is >= 0
C1_StockNeverNegative == \A q \in Products : stock[q] >= 0

\* C2: with stock N >= 1 of a product and two placements, each with the single
\* line (product, N), once both have returned exactly one has committed, the
\* other was rejected with InsufficientStock, and the stock is 0
C2_ExactlyOneWins ==
  \A q \in Products :
    (\A p \in Procs : /\ pc[p] = "done"
                      /\ txState[p] # "none"
                      /\ Lines(p) = <<Item(q, stock0[q])>>)
    => /\ \E w \in Procs :
            /\ txState[w] = "committed"
            /\ \A l \in Procs \ {w} : /\ txState[l] = "rolledback"
                                      /\ resp[l].status = 400
                                      /\ resp[l].error = "InsufficientStock"
       /\ stock[q] = 0

C2_Witness ==
  /\ \A p \in Procs : pc[p] = "done" /\ Lines(p) = <<Item(1, stock0[1])>>
  /\ txState[1] = "rolledback" /\ resp[1].error = "InsufficientStock"
  /\ txState[2] = "committed" /\ resp[2].status = 201
  /\ stock0[1] = 2 /\ stock[1] = 0

\* C3: a request with two lines for the same product gets past the stock
\* check only if the two quantities together are <= the product's stock
C3_SecondLineSeesFirst ==
  \A p \in Procs :
    (/\ pc[p] \in {"items", "update", "commit"}
     /\ Len(Lines(p)) = 2
     /\ Lines(p)[1].ProductID = Lines(p)[2].ProductID)
    => Lines(p)[1].Quantity + Lines(p)[2].Quantity <= snap[p].stock[Lines(p)[1].ProductID]

\* some line asks more of an existing product than its current stock
Oversized(p) ==
  \E i \in 1..Len(Lines(p)) :
    /\ Lines(p)[i].ProductID \in Products
    /\ Lines(p)[i].Quantity > stock[Lines(p)[i].ProductID]

\* some line names a product id that resolves to no row
HasMissing(p) == \E i \in 1..Len(Lines(p)) : Lines(p)[i].ProductID \notin Products

\* the handler leaves its check loop with the response `error` (one of errs)
\* and the committed tables are as its transaction found them
RejectedWith(p, errs) ==
  /\ pc'[p] = "done"
  /\ txState'[p] = "rolledback"
  /\ resp'[p].status = 400
  /\ resp'[p].error \in errs
  /\ Committed' = snap[p]

\* C4 as stated: a request with a line above the current stock fails with
\* InsufficientStock and leaves orders, order lines and stock as they were
C4_OversizedFailsInsufficient ==
  [][\A p \in Procs :
       (pc[p] = "check" /\ Oversized(p) /\ pc'[p] # "check")
       => RejectedWith(p, {"InsufficientStock"})]_vars

\* C4 amended: a request with a line above the current stock is rejected by
\* its first failing line, with InsufficientStock or, when that line's product
\* cannot be fetched, ProductNotFound, and leaves orders, order lines and
\* stock as they were
C4_OversizedRejected ==
  [][\A p \in Procs :
       (pc[p] = "check" /\ Oversized(p) /\ pc'[p] # "check")
       => RejectedWith(p, {"InsufficientStock", "ProductNotFound"})]_vars

C4_Witness ==
  \E p \in Procs, w \in Procs :
    /\ p # w
    /\ txState[w] = "committed"
    /\ requestData[p] = requestData[w]
    /\ Len(Lines(p)) = 1
    /\ Lines(p)[1].ProductID \in Products
    /\ Lines(p)[1].Quantity <= stock0[Lines(p)[1].ProductID]
    /\ pc[p] = "done" /\ resp[p].error = "InsufficientStock"
    /\ stock[Lines(p)[1].ProductID] = stock0[Lines(p)[1].ProductID] - Lines(p)[1].Quantity
    /\ Cardinality(orders) = 1

\* C5 as stated: a request with a line naming a nonexistent product fails
\* with ProductNotFound and leaves orders, order lines and stock as they were
C5_MissingFailsNotFound ==
  [][\A p \in Procs :
       (pc[p] = "check" /\ HasMissing(p) /\ pc'[p] # "check")
       => RejectedWith(p, {"ProductNotFound"})]_vars

\* C5 amended: a request with a line naming a nonexistent product is rejected
\* by its first failing line, with ProductNotFound or, when an earlier line
\* asks more than the stock, InsufficientStock, and leaves orders, order lines
\* and stock as they were
C5_MissingRejected ==
  [][\A p \in Procs :
       (pc[p] = "check" /\ HasMissing(p) /\ pc'[p] # "check")
       => RejectedWith(p, {"ProductNotFound", "InsufficientStock"})]_vars

C5_Witness ==
  \E p \in Procs :
    /\ pc[p] = "done"
    /\ Len(Lines(p)) = 2
    /\ Lines(p)[1].ProductID \in Products
    /\ Lines(p)[2].ProductID = MissingProduct
    /\ resp[p] = Response(400, "ProductNotFound", MissingProduct)
    /\ txState[p] = "rolledback"
    /\ orders = {} /\ order_items = {} /\ stock = stock0

\* C6: when the header insert, the line insert, a stock update or the commit
\* of a placement fails, the response is a server error and the committed
\* tables are as the transaction found them
C6_FailedStepLeavesNothing ==
  [][\A p \in Procs :
       (pc[p] \in {"create", "items", "update", "commit"} /\ pc'[p] = "done")
       => /\ resp'[p].status = 500
          /\ txState'[p] \in {"rolledback", "commitfailed"}
          /\ IF pc[p] = "create" THEN dbvars' = dbvars ELSE Committed' = snap[p]]_vars

C6_Witness ==
  \E p \in Procs :
    /\ pc[p] = "done"
    /\ resp[p] = Response(500, "Failed to update product quantities", 0)
    /\ Len(orderItems[p]) = 2 /\ idx[p] = 1
    /\ orders = {} /\ order_items = {} /\ stock = stock0

\* the request has at least one line and every line names an existing
\* product whose stock, as the transaction found it, covers the line
Satisfiable(p) ==
  /\ Len(Lines(p)) >= 1
  /\ \A i \in 1..Len(Lines(p)) :
       /\ Lines(p)[i].ProductID \in Products
       /\ Lines(p)[i].Quantity <= snap[p].stock[Lines(p)[i].ProductID]

\* the committed tables are those the transaction found plus the handler's
\* order, one order line per request line, and the stock less the quantities
PlacementApplied(p) ==
  /\ orders = snap[p].orders \cup {order[p]}
  /\ order[p] \notin snap[p].orders
  /\ LET new == {it \in order_items : it.OrderID = order[p].ID} IN
       /\ order_items = snap[p].order_items \cup new
       /\ new \cap snap[p].order_items = {}
       /\ Cardinality(new) = Len(Lines(p))
       /\ \A i \in 1..Len(Lines(p)) :
            \E it \in new : /\ it.ID = snap[p].seq.order_items + i
                            /\ it.ProductID = Lines(p)[i].ProductID
                            /\ it.Quantity = Lines(p)[i].Quantity
  /\ \A q \in Products : stock[q] = snap[p].stock[q] - SumQty(Lines(p), q)

\* C7: a validated request whose lines name existing products with enough
\* stock is never rejected; its commit adds the order with one order line per
\* request line and lowers each product's stock by the quantity asked of it
C7_ValidPlacementCommits ==
  [][\A p \in Procs :
       (InTx(p) /\ Satisfiable(p) /\ pc'[p] # pc[p])
       => /\ pc'[p] \in {"items", "update", "commit", "respond"}
          /\ pc'[p] = "respond" => (txState'[p] = "committed" /\ PlacementApplied(p)')]_vars

C7_Witness ==
  \E p \in Procs :
    /\ txState[p] = "committed"
    /\ Len(Lines(p)) = 2
    /\ Lines(p)[1].ProductID # Lines(p)[2].ProductID
    /\ Lines(p)[1].Quantity = 2
    /\ Cardinality(order_items) = 2
    /\ \A q \in Products : stock[q] = stock0[q] - SumQty(Lines(p), q)

\* C8: the committed tables, and whatever a reader has loaded from them,
\* hold only orders of committed placements, each with its full line set,
\* and stock that is lowered by committed placements only and by every
\* placement whose order is visible
C8_CommitIsOnlyVisibleEvent ==
  /\ \A o \in orders :
       \E p \in CommittedProcs : order[p] = o /\ RowsOf(p) \subseteq order_items
  /\ \A it \in order_items : \E p \in CommittedProcs : it \in RowsOf(p)
  /\ \A q \in Products : stock[q] = stock0[q] - SumPlaced(CommittedProcs, q)
  /\ \A o \in obs.orders :
       \E p \in CommittedProcs :
         /\ order[p] = o
         /\ rpc \in {"items", "done"} => RowsOf(p) \subseteq obs.order_items
  /\ \A q \in DOMAIN obs.products :
       /\ obs.products[q] >= stock0[q] - SumPlaced(CommittedProcs, q)
       /\ obs.products[q] <=
            stock0[q] - SumPlaced({p \in CommittedProcs : order[p] \in obs.orders}, q)

C8_Witness ==
  /\ rpc = "done"
  /\ Cardinality(obs.orders) = 1
  /\ Cardinality(obs.order_items) = 2
  /\ \E p \in Procs : InTx(p) /\ tx[p].stock # stock
  /\ \E q \in DOMAIN obs.products : obs.products[q] < stock0[q]

\* the input constraints of a placement: header fields present, price >= 0,
\* a non-empty line list, every line with a product id and a quantity >= 1
MeetsInputConstraints(r) ==
  /\ r.WellFormed
  /\ r.Price >= 0
  /\ r.Status # "" /\ r.Service # ""
  /\ IF r.kind = "individual" THEN r.Phone # "" /\ r.Name # ""
                              ELSE r.Organization # "" /\ r.INN # ""
  /\ r.HasItems /\ Len(r.OrderItems) >= 1
  /\ \A i \in 1..Len(r.OrderItems) :
       r.OrderItems[i].ProductID # 0 /\ r.OrderItems[i].Quantity >= 1

\* C9: a request that violates the input constraints is answered with a
\* validation error without a transaction being opened or anything written,
\* and the stock and existence checks run inside the open transaction
C9_ValidationBeforeStorage ==
  /\ \A p \in Procs :
       (pc[p] # "idle" /\ ~MeetsInputConstraints(requestData[p]))
       => /\ pc[p] = "done"
          /\ resp[p].status = 400
          /\ resp[p].error \in {"ValidationError", "ParseError"}
          /\ txState[p] = "none"
  /\ \A p \in Procs : pc[p] = "check" => (txState[p] = "open" /\ lock = p)

\* C10: a request with an empty order_items array is answered with a
\* validation error (client error) and no transaction was opened for it
C10_EmptyLinesRejected ==
  \A p \in Procs :
    (/\ pc[p] = "done"
     /\ requestData[p].WellFormed
     /\ requestData[p].HasItems
     /\ Lines(p) = <<>>)
    => /\ resp[p] = Response(400, "ValidationError", 0)
       /\ txState[p] = "none"

\* a body whose only departure from a passing body is price = 0
ZeroPriceBody(r) ==
  /\ r.WellFormed
  /\ r.Price = 0
  /\ Len(r.OrderItems) >= 1
  /\ ValidateStruct([r EXCEPT !.Price = 1])

\* C11: a request with price 0, every other required field present and valid
\* lines is not rejected by validation: it reaches the transaction
C11_ZeroPriceAccepted ==
  \A p \in Procs :
    (pc[p] # "idle" /\ ZeroPriceBody(requestData[p]))
    => /\ resp[p].error # "ValidationError"
       /\ txState[p] # "none"

C13_MissingUserGetsOrderView ==
  [][\A p \in Procs :
       (pc[p] = "respond" /\ pc'[p] = "done" /\ requestData[p].UserID \notin Users)
       => resp'[p] = IF FullOrderLoads(order[p].ID)
                       THEN Response(201, "", order[p].ID)
                       ELSE Response(500, "Order created but failed to load full details", 0)]_vars

\* the class of an HTTP status at the boundary
ErrorClass(status) ==
  IF status = 404 THEN "not-found"
  ELSE IF status >= 400 /\ status < 500 THEN "client"
  ELSE IF status >= 500 THEN "server"
  ELSE "none"

\* C14: a missing product of a placement and a missing order of an update or
\* of a read are answered with a not-found error, invalid input and
\* insufficient stock with a client error, a storage failure with a server
\* error
C14_ErrorClassesDistinct ==
  /\ \A p \in Procs :
       /\ resp[p].error = "ProductNotFound" => ErrorClass(resp[p].status) = "not-found"
       /\ resp[p].error \in {"ParseError", "ValidationError", "InsufficientStock"}
            => ErrorClass(resp[p].status) = "client"
       /\ resp[p].error \in {"Failed to create order", "Failed to create order items",
                              "Failed to update product quantities",
                              "Failed to commit transaction"}
            => ErrorClass(resp[p].status) = "server"
  /\ \A u \in Updaters :
       /\ uresp[u].error = "OrderNotFound" => ErrorClass(uresp[u].status) = "not-found"
       /\ uresp[u].error \in {"ParseError", "ValidationError"}
            => ErrorClass(uresp[u].status) = "client"
       /\ uresp[u].error = "Failed to update order" => ErrorClass(uresp[u].status) = "server"
  /\ (rpc = "done" /\ obs.handler = "getOrder" /\ obs.orders = {})
       => ErrorClass(obs.status) = "not-found"

\* the line fails: its product does not exist or it asks more than the stock
LineFails(it, st) == it.ProductID \notin Products \/ it.Quantity > st[it.ProductID]

\* index of the first line, in request order, that fails; 0 when none does
FirstFailing(items, st) ==
  IF \E i \in 1..Len(items) : LineFails(items[i], st)
    THEN CHOOSE i \in 1..Len(items) :
           /\ LineFails(items[i], st)
           /\ \A j \in 1..(i - 1) : ~LineFails(items[j], st)
    ELSE 0

\* the error a failing line stands for
LineError(it) == IF it.ProductID \notin Products THEN "ProductNotFound" ELSE "InsufficientStock"

\* C15: the check loop ends with the error of the first line, in request
\* order, that fails -- ProductNotFound for a missing product, InsufficientStock
\* for too large a quantity -- naming that line's product id; it passes when
\* no line fails
C15_FirstFailingLineDecides ==
  [][\A p \in Procs :
       (pc[p] = "check" /\ pc'[p] # "check")
       => LET f == FirstFailing(Lines(p), snap[p].stock) IN
            IF f = 0 THEN pc'[p] = "items"
            ELSE /\ pc'[p] = "done"
                 /\ resp'[p] = Response(400, LineError(Lines(p)[f]), Lines(p)[f].ProductID)]_vars

\* C16: the price stored with a committed order is the price of the request,
\* whether or not it equals the total calculated from the lines, and a
\* validated request never leaves its transaction for a reason other than a
\* line that fails
C16_CallerPricePersisted ==
  [][\A p \in Procs :
       /\ (pc[p] = "commit" /\ pc'[p] = "respond")
            => \E o \in orders' : /\ o.ID = order[p].ID
                                  /\ o.Price = requestData[p].Price
                                  /\ o \notin orders
       /\ (InTx(p) /\ pc'[p] = "done" /\ Lines(p) # <<>>)
            => /\ resp'[p].error \in {"ProductNotFound", "InsufficientStock"}
               /\ FirstFailing(Lines(p), snap[p].stock) # 0]_vars

C16_Witness ==
  \E p \in Procs, w \in Procs :
    /\ txState[p] = "committed" /\ txState[w] = "committed"
    /\ requestData[p].Price # CalculatedPrice(Lines(p))
    /\ requestData[w].Price = CalculatedPrice(Lines(w))
    /\ \A x \in {p, w} : \E o \in orders : o.ID = order[x].ID /\ o.Price = requestData[x].Price

\* C17: every commit of a placement adds exactly one order, with an id no
\* existing order has; the same request committed twice gives two orders
\* and lowers the stock twice
C17_EachPlacementNewOrder ==
  [][\A p \in Procs :
       (pc[p] = "commit" /\ pc'[p] = "respond")
       => /\ \A o \in orders : o.ID # order[p].ID
          /\ orders' = orders \cup {order[p]}
          /\ Cardinality(orders') = Cardinality(orders) + 1
          /\ \A w \in CommittedProcs :
               requestData[w] = requestData[p]
               => /\ order[w] \in orders' /\ order[w].ID # order[p].ID
                  /\ \A q \in Products :
                       stock'[q] = stock0[q] - 2 * SumQty(Lines(p), q)]_vars

C17_Witness ==
  /\ \A p \in Procs : txState[p] = "committed" /\ Lines(p) = <<Item(1, 1)>>
  /\ requestData[1] = requestData[2]
  /\ Cardinality(orders) = 2
  /\ Cardinality(order_items) = 2
  /\ stock[1] = stock0[1] - 2

\* C18: no step of updateOrder, on a path that succeeds or on one that
\* fails, changes a row of order_items or the stock of a product
C18_UpdateLeavesLinesAndStock ==
  [][(\E u \in Updaters : upc'[u] # upc[u])
       => /\ order_items' = order_items
          /\ stock' = stock]_vars

C18_Witness ==
  \E u \in Updaters :
    /\ upc[u] = "done"
    /\ utxState[u] = "committed"
    /\ Cardinality(uorder[u].OrderItems) = 2
    /\ uorder[u].OrderItems \subseteq order_items
    /\ uorder[u].row \in orders
    /\ uorder[u].row.Status = "paid"
    /\ stock # stock0

\* C19: updateOrder with an id that resolves to no order answers OrderNotFound
\* (not found), ends its transaction by rollback and leaves orders, order
\* lines and products as they are
C19_UpdateMissingOrder ==
  [][\A u \in Updaters :
       (/\ upc[u] = "first" /\ upc'[u] # "first"
        /\ \A o \in orders : o.ID # updateData[u].ID)
       => /\ uresp'[u] = Response(404, "OrderNotFound", 0)
          /\ upc'[u] = "done"
          /\ utxState'[u] = "rolledback"
          /\ u \notin shared' /\ lock' # u
          /\ dbvars' = dbvars]_vars

C19_Witness ==
  \E u \in Updaters :
    /\ upc[u] = "done"
    /\ updateData[u].ID = MissingOrder
    /\ uresp[u] = Response(404, "OrderNotFound", 0)
    /\ utxState[u] = "rolledback"
    /\ Cardinality(orders) = 2

\* the value a supplied field leaves: the supplied one unless it is empty
Supplied(new, old) == IF new # "" THEN new ELSE old

\* C20: a committed updateOrder keeps the order's kind; on an individual
\* order it sets phone and name where supplied and keeps organization, tax id
\* and comment; on a legal order it sets organization, tax id and comment
\* where supplied and keeps phone and name; no other order changes
C20_UpdateKindFields ==
  [][\A u \in Updaters :
       (upc[u] = "commit" /\ upc'[u] = "respond")
       => \E old \in orders, new \in orders' :
            /\ old.ID = updateData[u].ID /\ new.ID = old.ID
            /\ orders' \ {new} = orders \ {old}
            /\ new.OrderType = old.OrderType
            /\ IF old.OrderType = "individual"
                 THEN /\ new.Phone = Supplied(updateData[u].Phone, old.Phone)
                      /\ new.Name = Supplied(updateData[u].Name, old.Name)
                      /\ new.Organization = old.Organization
                      /\ new.INN = old.INN
                      /\ new.Comment = old.Comment
                 ELSE /\ new.Organization = Supplied(updateData[u].Organization, old.Organization)
                      /\ new.INN = Supplied(updateData[u].INN, old.INN)
                      /\ new.Comment = Supplied(updateData[u].Comment, old.Comment)
                      /\ new.Phone = old.Phone
                      /\ new.Name = old.Name]_vars

C20_Witness ==
  \E u \in Updaters :
    /\ utxState[u] = "committed"
    /\ \E id \in 1..MissingOrder : updateData[u] = FullUpdate(id)
    /\ \E o \in orders :
         /\ o.ID = updateData[u].ID
         /\ o.OrderType = "legal"
         /\ o.Organization = "globex" /\ o.INN = "99" /\ o.Comment = "note"
         /\ o.Phone = "" /\ o.Name = ""
    /\ \E o \in orders :
         /\ o.OrderType = "individual"
         /\ o.Phone = "555" /\ o.Organization = ""

\* C21: a committed updateOrder replaces price, bonus and status by the
\* supplied value when that is non-zero / non-empty and keeps the stored
\* value when the supplied one is 0 / empty
C21_CommonFieldsOnlyWhenSupplied ==
  [][\A u \in Updaters :
       (upc[u] = "commit" /\ upc'[u] = "respond")
       => \E old \in orders, new \in orders' :
            /\ old.ID = updateData[u].ID /\ new.ID = old.ID
            /\ new.Price = IF updateData[u].Price # 0 THEN updateData[u].Price ELSE old.Price
            /\ new.Bonus = IF updateData[u].Bonus # 0 THEN updateData[u].Bonus ELSE old.Bonus
            /\ new.Status = Supplied(updateData[u].Status, old.Status)]_vars

C21_Witness ==
  \E u \in Updaters :
    /\ utxState[u] = "committed"
    /\ updateData[u].Price = 2 /\ updateData[u].Bonus = 0 /\ updateData[u].Status = ""
    /\ \E o \in orders :
         o.ID = updateData[u].ID /\ o.Price = 2 /\ o.Bonus = 0 /\ o.Status = "new"

\* the body supplies no updatable field
NoopUpdate(r) ==
  /\ r.Price = 0 /\ r.Bonus = 0 /\ r.Status = ""
  /\ r.Phone = "" /\ r.Name = "" /\ r.Organization = "" /\ r.INN = "" /\ r.Comment = ""

Takes(r, k) ==
  {f \in {"Price", "Bonus"} : r[f] # 0}
  \cup {f \in {"Status"} : r[f] # ""}
  \cup {f \in (IF k = "individual" THEN {"Phone", "Name"}
                ELSE {"Organization", "INN", "Comment"}) : r[f] # ""}

\* C27: once two updateOrder requests on the same order have both returned
\* success, the stored order carries every field either of them supplied
\* and the other did not
C27_NoLostUpdate ==
  \A u \in Updaters, v \in Updaters :
    (/\ u # v
     /\ upc[u] = "done" /\ upc[v] = "done"
     /\ uresp[u].status = 200 /\ uresp[v].status = 200
     /\ updateData[u].ID = updateData[v].ID)
    => \E o \in orders :
         /\ o.ID = updateData[u].ID
         /\ \A f \in Takes(updateData[u], o.OrderType) \ Takes(updateData[v], o.OrderType) :
              o[f] = updateData[u][f]

C27_Witness ==
  \E u \in Updaters, v \in Updaters :
    /\ upc[u] = "done" /\ upc[v] = "done"
    /\ uresp[u].status = 200 /\ uresp[v].status = 200
    /\ updateData[u] = UpdateBody(1, 2, 0, "", "", "", "", "", "")
    /\ updateData[v] = UpdateBody(1, 0, 0, "sent", "", "", "", "", "")
    /\ \E o \in orders : o.ID = 1 /\ o.Price = 2 /\ o.Status = "sent"

\* total quantity of the rows of order_items in S that reference product q
RECURSIVE SumRows(_, _)
SumRows(S, q) ==
  IF S = {} THEN 0
  ELSE LET it == CHOOSE x \in S : TRUE
       IN (IF it.ProductID = q THEN it.Quantity ELSE 0) + SumRows(S \ {it}, q)

\* C26: under placements, updates and deletions of orders, for every product
\* the stock at start-up equals the current stock plus the quantities of all
\* persisted order lines of that product
C26_StockConserved ==
  \A q \in Products : stock0[q] = stock[q] + SumRows(order_items, q)

C26_Witness ==
  /\ dpc = "done" /\ dresp.status = 200
  /\ \E u \in Updaters : utxState[u] = "committed"
  /\ \E q \in Products : stock[q] < stock0[q]
  /\ \E o \in orders : o.Status = "paid"

\* C29: every persisted order line references an order that exists
C29_LinesReferenceOrders ==
  \A it \in order_items : \E o \in orders : o.ID = it.OrderID

\* the transaction has been ended: by a commit, by a rollback, or by the
\* rollback that follows a failed commit
Ended(st) == st \in {"committed", "rolledback", "commitfailed"}

\* C28: a placement or an update that has answered has no transaction open
\* and holds no lock; a transaction that has ended stays ended in the same
\* way and nothing is written through it afterwards; and every transaction
\* ends in the step that leaves its last statement
C28_TransactionsEndOnce ==
  [][/\ \A p \in Procs :
          /\ pc'[p] = "done" => (txState'[p] # "open" /\ lock' # p)
          /\ Ended(txState[p]) => (txState'[p] = txState[p] /\ tx'[p] = NoImage)
          /\ (txState[p] = "open" /\ txState'[p] # "open") => Ended(txState'[p])
     /\ \A u \in Updaters :
          /\ upc'[u] = "done" => (utxState'[u] # "open" /\ lock' # u /\ u \notin shared')
          /\ Ended(utxState[u]) => (utxState'[u] = utxState[u] /\ utx'[u] = NoImage)
          /\ (utxState[u] = "open" /\ utxState'[u] # "open") => Ended(utxState'[u])]_vars

C28_Witness ==
  /\ \E p \in Procs : pc[p] = "done" /\ txState[p] = "committed"
  /\ \E p \in Procs : pc[p] = "done" /\ txState[p] \in {"rolledback", "commitfailed"}
  /\ \E u \in Updaters : upc[u] = "done" /\ utxState[u] = "committed"
  /\ \E u \in Updaters : upc[u] = "done" /\ utxState[u] = "commitfailed"

\* the number a parameter of the request stands for, 0 when it is absent
Given(p) == IF p.raw = "num" THEN p.n ELSE 0

\* the products a getAllProducts request is about, in stored order
Matching(q) ==
  LET idx0 == {i \in 1..Len(catalog.products) :
                 q.category_id = 0 \/ catalog.products[i].CategoryID = q.category_id}
      Nth(k) == CHOOSE i \in idx0 : Cardinality({j \in idx0 : j <= i}) = k
  IN [k \in 1..Cardinality(idx0) |-> catalog.products[Nth(k)]]

\* C23: getAllProducts answers with the matching products at positions
\* skip+1 .. min(skip+limit, total) when limit > 0 and with all of them after
\* the first skip ones when limit is absent or 0; total is the number of
\* matching products whatever skip and limit are
C23_ProductPage ==
  (listing.handler = "getAllProducts" /\ listing.status = 200)
  => LET q == listing.query
         all == Matching(q)
         total == Len(all)
         skip == Given(q.skip)
         last == IF Given(q.limit) > 0 /\ skip + Given(q.limit) < total
                   THEN skip + Given(q.limit) ELSE total
     IN /\ listing.total = total
        /\ listing.items = [k \in 1..(IF last > skip THEN last - skip ELSE 0) |-> all[skip + k]]

C23_Witness ==
  /\ listing.handler = "getAllProducts" /\ listing.status = 200
  /\ listing.query.skip = Num(MaxCatalog - 1) /\ listing.query.limit = Num(MaxCatalog)
  /\ listing.query.category_id = 0
  /\ Len(catalog.products) = MaxCatalog
  /\ listing.items = <<catalog.products[MaxCatalog]>>
  /\ listing.total = MaxCatalog

\* C24: a listing of products, categories or brands asked with a negative
\* skip or a negative limit is refused and lists nothing
C24_NegativeRefused ==
  (/\ listing.handler \in {"getAllProducts", "getAllCategories", "getAllBrands"}
   /\ (Given(listing.query.skip) < 0 \/ Given(listing.query.limit) < 0))
  => (listing.status = 400 /\ listing.items = <<>>)

\* letters without regard to case
Lower(ch) == IF ch = "A" THEN "a" ELSE ch

\* the name contains the query, letters compared without regard to case
Contains(name, query) ==
  \E i \in 1..(Len(name) - Len(query) + 1) :
    \A j \in 1..Len(query) : Lower(name[i + j - 1]) = Lower(query[j])

Range(s) == {s[i] : i \in 1..Len(s)}

\* what the fallback order asks searchProducts to return for the query
Expected(query) ==
  LET byName == {r \in Range(catalog.products) : Contains(r.Name, query)}
      cats == {c.ID : c \in {x \in Range(catalog.categories) : Contains(x.Name, query)}}
      byCategory == {r \in Range(catalog.products) : r.CategoryID \in cats}
      brs == {b.ID : b \in {x \in Range(catalog.brands) : Contains(x.Name, query)}}
      byBrand == {r \in Range(catalog.products) : r.BrandID \in brs}
  IN IF byName # {} THEN byName ELSE IF byCategory # {} THEN byCategory ELSE byBrand

\* C25: searchProducts returns exactly the products whose name contains the
\* query if there are any, otherwise exactly the products of the categories
\* whose name contains it if there are any, otherwise the products of the
\* brands whose name contains it
C25_SearchFallback ==
  (listing.handler = "searchProducts" /\ listing.status = 200)
  => Range(listing.items) = Expected(listing.query.q)

\* the same for the queries that are made of letters only
SearchFallbackOnLetters ==
  (/\ listing.handler = "searchProducts" /\ listing.status = 200
   /\ \A i \in 1..Len(listing.query.q) : listing.query.q[i] \notin {"%", "_"})
  => Range(listing.items) = Expected(listing.query.q)

\* the goroutines inside a critical section hold the mutex
InCriticalSection ==
  /\ \A c \in Conns : wpc[c] \in {"register", "drop"} => mutex = c
  /\ bpc = "range" => mutex = Broadcaster

\* the map changes only in a step of the goroutine that holds the mutex
MapUnderMutex ==
  clients' # clients
  => \/ mutex = Broadcaster /\ bpc = "range"
     \/ \E c \in Conns : mutex = c /\ wpc[c] \in {"register", "drop"}

\* a client whose write has failed is out of the map and is not written again
FailedStaysOut ==
  \A c \in Conns :
    ClosedByBroadcaster(c)
    => /\ c \notin clients
       /\ {w \in writes' : w.client = c} = {w \in writes : w.client = c}

\* every message read so far has been broadcast and written, the write
\* succeeding or failing, to every client that was registered when its
\* broadcast began
AllDelivered ==
  \A c \in Conns : \A k \in 1..nread[c] :
    \E b \in sent :
      /\ b.msg = Msg(c, k)
      /\ \A x \in b.due : \E w \in writes : w.msg = b.msg /\ w.client = x

\* C30: the map of clients is read and changed only under the mutex; a
\* client whose write failed is removed and never written again; every
\* message read is eventually written to every client registered when it is
\* broadcast; and a handler waiting to enqueue, the buffer full or not,
\* always gets to enqueue
C30_Broadcast ==
  /\ []InCriticalSection
  /\ [][MapUnderMutex /\ FailedStaysOut]_vars
  /\ (~AllDelivered) ~> AllDelivered
  /\ \A c \in Conns : (wpc[c] = "send") ~> (wpc[c] = "read")

C30_Witness ==
  /\ Len(broadcast) = BroadcastCap
  /\ \E c \in Conns : wpc[c] = "send"
  /\ \E b \in sent : b.due = Conns
  /\ \E w \in writes : w.ok /\ w.client = w.msg[1]
  /\ \E w \in writes : ~w.ok

====
